---- MODULE Spec2Model ----
(***************************************************************************)
(* A model of the gameplay core of figma-make-doom:                        *)
(*   GameStateManager  (src/src/game/core/GameStateManager.ts)             *)
(*   GameEngine        (src/src/components/AudioSettings.tsx, 240-749)     *)
(*   InputSystem       (src/unnamed/part_002)                              *)
(*                                                                         *)
(* Units.  Positions are fixed-point integers, PosScale units per grid     *)
(* cell.  Angles are integers in milliradians.  Wall-clock time is in      *)
(* time units of half a fixed step (1000/120 ms).  Math.random() is a      *)
(* choice made by the action that runs the code drawing it.                *)
(***************************************************************************)
EXTENDS Integers, Sequences, FiniteSets, TLC

VARIABLES
    state,      \* GameStateManager.state
    timers,     \* callbacks scheduled by GameStateManager with setTimeout, not yet run
    now,        \* the host's clock
    engine,     \* GameEngine fields: isRunning, and what the last operation did
    input,      \* InputSystem.inputState, document.pointerLockElement, its timers
    gen,        \* the dungeon generator at work: its map and its stage
    cad,        \* two engines fed the same wall-clock interval at two frame rates
    listeners   \* GameStateManager.listeners, and what its readers hold and saw

vars == <<state, timers, now, engine, input, gen, cad, listeners>>

----------------------------------------------------------------------------
(* Bounds of the model *)

MaxTime == 3            \* the host clock stops here
MaxClock == 7           \* the host clock stops here when only the clock is watched
MaxPending == 2         \* callbacks of one kind pending at once
MaxEscapes == 2         \* Escape key presses in one behaviour
MaxClears == 1          \* cells the emergency pass clears outside the spawn area
CadFrames == 3          \* frames of the slower engine in the cadence comparison
MaxShots == 2           \* shots fired in one behaviour
MaxFloor == 2           \* the deepest floor reached
MaxCalls == 2           \* direct calls of GameStateManager's methods in one behaviour
MaxListeners == 2       \* entries of GameStateManager.listeners at once

----------------------------------------------------------------------------
(* Units and numeric helpers *)

PosScale == 20 * 20     \* position units per grid cell
PI == 3142              \* Math.PI in milliradians
TwoPi == 2 * PI

Abs(n) == IF n < 0 THEN -n ELSE n
Min(a, b) == IF a < b THEN a ELSE b
Max(a, b) == IF a > b THEN a ELSE b

\* Array.prototype.splice(i, 1), on a sequence
RemoveAt(seq, i) == SubSeq(seq, 1, i - 1) \o SubSeq(seq, i + 1, Len(seq))

\* Math.floor(v / PosScale) for a position v: the grid cell of a coordinate
Floor(v) == v \div PosScale

RECURSIVE Newton(_, _)
Newton(n, x) ==
    LET y == (x + n \div x) \div 2
    IN  IF y >= x THEN x ELSE Newton(n, y)

\* Math.sqrt on a squared length, rounded down to a whole position unit
Sqrt(n) == IF n <= 0 THEN 0 ELSE Newton(n, n)

DistSq(ax, ay, bx, by) == (ax - bx) * (ax - bx) + (ay - by) * (ay - by)

\* a length given in tenths of a cell, squared, in position units
Tenths(t) == (t * PosScale) \div 10
TenthsSq(t) == Tenths(t) * Tenths(t)

\* sin of the 64 compass directions, times 1000 (first quadrant)
SinQ == <<0, 98, 195, 290, 383, 471, 556, 634, 707, 773, 831, 882, 924, 957,
          981, 995, 1000>>

Sin64(k) ==
    LET m == k % 64
    IN  IF m <= 16 THEN SinQ[m + 1]
        ELSE IF m <= 32 THEN SinQ[32 - m + 1]
        ELSE IF m <= 48 THEN -SinQ[m - 32 + 1]
        ELSE -SinQ[64 - m + 1]

Cos64(k) == Sin64(k + 16)

\* the compass direction nearest to an angle (any integer, in milliradians)
DirIndex(a) == (((a % TwoPi) * 64 + PI) \div TwoPi) % 64

\* Math.cos / Math.sin, times 1000
Cos(a) == Cos64(DirIndex(a))
Sin(a) == Sin64(DirIndex(a))

\* Math.atan2(dy, dx) in milliradians, in (-PI, PI], to the nearest compass
\* direction: of the directions of the quadrant of (dx, dy), the one along which
\* (dx, dy) reaches farthest
Atan2(dy, dx) ==
    IF dx = 0 /\ dy = 0 THEN 0
    ELSE LET q == IF dy >= 0 THEN (IF dx >= 0 THEN 0 ELSE 16)
                  ELSE (IF dx < 0 THEN 32 ELSE 48)
             k == CHOOSE c \in q..(q + 16) :
                    \A j \in q..(q + 16) :
                        dx * Cos64(c) + dy * Sin64(c) >= dx * Cos64(j) + dy * Sin64(j)
         IN  IF dy >= 0 THEN (k * TwoPi) \div 64
             ELSE -(((64 - k) * TwoPi) \div 64)

----------------------------------------------------------------------------
(* The tile grid: number[][] as its side and the set of cells holding a    *)
(* wall (> 0); every other cell holds 0.  Cells are <<x, y>>.              *)

Cells(size) == (0..(size - 1)) \X (0..(size - 1))
Interior(size) == (1..(size - 2)) \X (1..(size - 2))
BorderCells(size) == Cells(size) \ Interior(size)
InGrid(m, cx, cy) == cx >= 0 /\ cx < m.size /\ cy >= 0 /\ cy < m.size

\* worldMap[cy][cx] === 0; a lookup outside the grid is not 0
Passable(m, cx, cy) == InGrid(m, cx, cy) /\ <<cx, cy>> \notin m.walls

\* RenderingSystem.castRay(originX, originY, angle, grid).distance: march from the
\* origin along (cos, sin) in steps of RayStep, sampling the cell under the point;
\* stop at the first wall, or at MaxRayDistance.  Lengths in position units.
RayStep == PosScale \div 10
MaxRayDistance == 20 * PosScale

\* the point of the ray at distance d from the origin lies in a wall; c and sn are
\* the cosine and the sine of the ray's angle, times 1000
RayBlocked(m, ox, oy, c, sn, d) ==
    ~Passable(m, Floor(ox + (d * c) \div 1000), Floor(oy + (d * sn) \div 1000))

castRay(ox, oy, angle, m) ==
    LET c == Cos(angle)
        sn == Sin(angle)
        steps == {k \in 1..(MaxRayDistance \div RayStep - 1) :
                      RayBlocked(m, ox, oy, c, sn, k * RayStep)}
    IN  IF steps = {} THEN MaxRayDistance
        ELSE RayStep * (CHOOSE k \in steps : \A j \in steps : k <= j)

----------------------------------------------------------------------------
(* GameStateManager: constants *)

FIXED_TIMESTEP == 2     \* 1000 / 60 ms, in time units of 1000 / 120 ms

Weapons == {"pistol", "shotgun", "chaingun"}

\* WEAPON_STATS; range in cells, accuracy in milliradians
WEAPON_STATS ==
    [pistol   |-> [damage |-> 12, ammoUse |-> 1, attackDuration |-> 15,
                   muzzleDuration |-> 8, range |-> 15, accuracy |-> 200],
     shotgun  |-> [damage |-> 22, ammoUse |-> 1, attackDuration |-> 25,
                   muzzleDuration |-> 12, range |-> 8, accuracy |-> 300],
     chaingun |-> [damage |-> 7, ammoUse |-> 1, attackDuration |-> 8,
                   muzzleDuration |-> 5, range |-> 12, accuracy |-> 200]]

None == "none"          \* null / undefined

EnemyTypes == {"grunt", "soldier", "captain"}
BossTypes == <<"boss_demon", "boss_cyberdemon", "boss_spider_mastermind">>

\* getFloorTheme
Themes == <<"tech_base", "hell_fortress", "ancient_ruins", "cyber_facility",
            "void_realm">>
getFloorTheme(floor) == Themes[(((floor - 1) \div 5) % Len(Themes)) + 1]

----------------------------------------------------------------------------
(* GameStateManager: flood fill, used by the generator and by enemy placement *)

Neighbours4(c) == {<<c[1], c[2] - 1>>, <<c[1] + 1, c[2]>>,
                   <<c[1], c[2] + 1>>, <<c[1] - 1, c[2]>>}

RECURSIVE Flood(_, _, _)
Flood(m, visited, frontier) ==
    LET new == {n \in UNION {Neighbours4(c) : c \in frontier} :
                    /\ InGrid(m, n[1], n[2])
                    /\ n \notin visited
                    /\ n \notin m.walls}
    IN  IF new = {} THEN visited ELSE Flood(m, visited \cup new, new)

\* floodFill(map, startX, startY, size): the cells marked visited; the start
\* cell is marked whatever it holds
floodFill(m, startX, startY) == Flood(m, {<<startX, startY>>}, {<<startX, startY>>})

----------------------------------------------------------------------------
(* GameStateManager: the grid generator.  A grid is its size and the set of *)
(* its cells that hold a wall; each stage takes the values its Math.random() *)
(* calls return as a parameter.                                             *)

\* the grid generateWorldMapWithTheme starts from: walls along the border
BorderOnly(size) == [size |-> size, walls |-> BorderCells(size)]

SetWalls(m, cells) == [m EXCEPT !.walls = @ \cup cells]
ClearWalls(m, cells) == [m EXCEPT !.walls = @ \ cells]

\* createEnhancedRoom: the outline, the cleared interior and, in a room wider and
\* higher than 8, the central pillar and the internal wall with its two doorways
\* when they were drawn
createEnhancedRoom(m, room) ==
    LET xs == room.x..(room.x + room.width - 1)
        ys == room.y..(room.y + room.height - 1)
        outline == {c \in xs \X ys : \/ c[1] = room.x
                                     \/ c[1] = room.x + room.width - 1
                                     \/ c[2] = room.y
                                     \/ c[2] = room.y + room.height - 1}
        basic == SetWalls(ClearWalls(m, xs \X ys), outline)
        centerX == room.x + room.width \div 2
        centerY == room.y + room.height \div 2
        m1 == IF room.pillar THEN SetWalls(basic, {<<centerX, centerY>>}) ELSE basic
        m2 == IF room.internal = <<>> THEN m1
              ELSE ClearWalls(
                     SetWalls(m1, {<<x, centerY>> :
                                     x \in room.internal[1] \cap
                                           ((room.x + 2)..(room.x + room.width - 3))}),
                     {<<room.x + room.width \div 3, centerY>>,
                      <<room.x + (2 * room.width) \div 3, centerY>>})
    IN  IF room.width > 8 /\ room.height > 8 THEN m2 ELSE basic

\* hasOverlap of generateRooms
hasOverlap(room, rooms) ==
    \E i \in 1..Len(rooms) :
        ~(\/ room.x + room.width + 1 < rooms[i].x
          \/ room.x > rooms[i].x + rooms[i].width + 1
          \/ room.y + room.height + 1 < rooms[i].y
          \/ room.y > rooms[i].y + rooms[i].height + 1)

\* validDoors of generateRoomDoors: the cells of the four sides without the
\* corners, inside the border
validDoors(room, mapSize) ==
    {c \in ({<<room.x + 1 + i, room.y>> : i \in 0..(room.width - 3)}
            \cup {<<room.x + room.width - 1, room.y + 1 + i>> : i \in 0..(room.height - 3)}
            \cup {<<room.x + 1 + i, room.y + room.height - 1>> : i \in 0..(room.width - 3)}
            \cup {<<room.x, room.y + 1 + i>> : i \in 0..(room.height - 3)}) :
        c[1] > 0 /\ c[1] < mapSize - 1 /\ c[2] > 0 /\ c[2] < mapSize - 1}

\* generateRoomDoors: room.doors holds the one to three door positions drawn
generateRoomDoors(m, room) == ClearWalls(m, room.doors \cap validDoors(room, m.size))

\* the cells one corridor of generateDenseCorridors clears: the loop reaches
\* step j when no earlier step moved onto the edge band, and clears the cell and
\* its east and south neighbours when the cell is inside the band
CorridorCells(size, c) ==
    LET At(j) == <<c.startX + j * c.dx, c.startY + j * c.dy>>
        Edge(p) == p[1] <= 2 \/ p[1] >= size - 3 \/ p[2] <= 2 \/ p[2] >= size - 3
        Inside(p) == p[1] >= 2 /\ p[1] < size - 2 /\ p[2] >= 2 /\ p[2] < size - 2
        reached == {j \in 0..(c.length - 1) : \A k \in 1..j : ~Edge(At(k))}
    IN  UNION {{At(j)}
               \cup (IF At(j)[1] + 1 < size - 1 THEN {<<At(j)[1] + 1, At(j)[2]>>} ELSE {})
               \cup (IF At(j)[2] + 1 < size - 1 THEN {<<At(j)[1], At(j)[2] + 1>>} ELSE {}) :
               j \in {k \in reached : Inside(At(k))}}

\* generateDenseCorridors; corridors holds the corridors drawn (start, direction
\* and length; none of them turns)
generateDenseCorridors(m, corridors) ==
    ClearWalls(m, UNION {CorridorCells(m.size, c) : c \in corridors})

\* the loop of generateRooms over the drawn rooms: a room that overlaps one
\* already placed is skipped
RECURSIVE PlaceRooms(_, _, _, _)
PlaceRooms(m, drawn, i, rooms) ==
    IF i > Len(drawn) THEN [m |-> m, rooms |-> rooms]
    ELSE IF hasOverlap(drawn[i], rooms) THEN PlaceRooms(m, drawn, i + 1, rooms)
    ELSE PlaceRooms(createEnhancedRoom(m, drawn[i]), drawn, i + 1,
                    Append(rooms, drawn[i]))

\* generateEnhancedConnectivity: the doors of every room, then the corridors
RECURSIVE RoomDoors(_, _, _)
RoomDoors(m, rooms, i) ==
    IF i > Len(rooms) THEN m
    ELSE RoomDoors(generateRoomDoors(m, rooms[i]), rooms, i + 1)

generateEnhancedConnectivity(m, rooms, corridors) ==
    generateDenseCorridors(RoomDoors(m, rooms, 1), corridors)

\* generateRooms
generateRooms(m, drawn, corridors) ==
    LET placed == PlaceRooms(m, drawn, 1, <<>>)
    IN  generateEnhancedConnectivity(placed.m, placed.rooms, corridors)

\* generateMaze
generateMaze(m, corridors) == generateDenseCorridors(m, corridors)

\* the cluster loop of generatePillars: each drawn offset that passed the 0.6
\* draw becomes a wall when it lies in 2..size-3 and the cell is open
RECURSIVE PillarCluster(_, _, _)
PillarCluster(m, pillar, j) ==
    IF j > Len(pillar.cluster) THEN m
    ELSE LET newX == pillar.x + pillar.cluster[j][1]
             newY == pillar.y + pillar.cluster[j][2]
         IN  PillarCluster(IF /\ newX >= 2 /\ newX < m.size - 2
                              /\ newY >= 2 /\ newY < m.size - 2
                              /\ <<newX, newY>> \notin m.walls
                           THEN SetWalls(m, {<<newX, newY>>}) ELSE m,
                           pillar, j + 1)

\* generatePillars: a pillar is placed when its cell is open
RECURSIVE generatePillars(_, _, _)
generatePillars(m, pillars, i) ==
    IF i > Len(pillars) THEN m
    ELSE generatePillars(
             IF <<pillars[i].x, pillars[i].y>> \notin m.walls
             THEN PillarCluster(SetWalls(m, {<<pillars[i].x, pillars[i].y>>}),
                                pillars[i], 1)
             ELSE m,
             pillars, i + 1)

\* specialRoomTemplates: cross, L, circle, H, diamond, complex structure
specialRoomTemplates ==
    << << <<0, 0, 1, 1, 1, 0, 0>>,
          <<0, 0, 1, 0, 1, 0, 0>>,
          <<1, 1, 1, 0, 1, 1, 1>>,
          <<1, 0, 0, 0, 0, 0, 1>>,
          <<1, 1, 1, 0, 1, 1, 1>>,
          <<0, 0, 1, 0, 1, 0, 0>>,
          <<0, 0, 1, 1, 1, 0, 0>> >>,
       << <<1, 1, 1, 1, 1>>,
          <<1, 0, 0, 0, 1>>,
          <<1, 0, 0, 0, 1>>,
          <<1, 0, 0, 0, 0>>,
          <<1, 1, 1, 0, 0>> >>,
       << <<0, 1, 1, 1, 0>>,
          <<1, 0, 0, 0, 1>>,
          <<1, 0, 0, 0, 1>>,
          <<1, 0, 0, 0, 1>>,
          <<0, 1, 1, 1, 0>> >>,
       << <<1, 0, 0, 0, 1>>,
          <<1, 0, 0, 0, 1>>,
          <<1, 1, 1, 1, 1>>,
          <<1, 0, 0, 0, 1>>,
          <<1, 0, 0, 0, 1>> >>,
       << <<0, 0, 1, 0, 0>>,
          <<0, 1, 0, 1, 0>>,
          <<1, 0, 0, 0, 1>>,
          <<0, 1, 0, 1, 0>>,
          <<0, 0, 1, 0, 0>> >>,
       << <<1, 1, 1, 1, 1, 1, 1>>,
          <<1, 0, 0, 1, 0, 0, 1>>,
          <<1, 0, 0, 1, 0, 0, 1>>,
          <<1, 1, 1, 0, 1, 1, 1>>,
          <<1, 0, 0, 1, 0, 0, 1>>,
          <<1, 0, 0, 1, 0, 0, 1>>,
          <<1, 1, 1, 1, 1, 1, 1>> >> >>

\* the cells of a pattern placed at (startX, startY) that hold the given value,
\* as grid cells; pattern[y + 1][x + 1] is the source's pattern[y][x]
PatternCells(pattern, startX, startY, value) ==
    {<<startX + x, startY + y>> : <<x, y>> \in
        {c \in (0..(Len(pattern[1]) - 1)) \X (0..(Len(pattern) - 1)) :
            pattern[c[2] + 1][c[1] + 1] = value}}

\* the perimeterCells of ensureSpecialRoomConnectivity, in the order of its scan
perimeterCells(pattern, startX, startY, mapSize) ==
    LET w == Len(pattern[1])
        h == Len(pattern)
        At(x, y) == pattern[y + 1][x + 1]
        isPerimeter(x, y) ==
            \/ x = 0 \/ x = w - 1 \/ y = 0 \/ y = h - 1
            \/ (x > 0 /\ At(x - 1, y) = 0)
            \/ (x < w - 1 /\ At(x + 1, y) = 0)
            \/ (y > 0 /\ At(x, y - 1) = 0)
            \/ (y < h - 1 /\ At(x, y + 1) = 0)
        Keep(k) == LET x == k % w
                       y == k \div w
                   IN  /\ At(x, y) > 0
                       /\ isPerimeter(x, y)
                       /\ startX + x > 0 /\ startX + x < mapSize - 1
                       /\ startY + y > 0 /\ startY + y < mapSize - 1
        kept == {k \in 0..(w * h - 1) : Keep(k)}
        Nth(n) == CHOOSE k \in kept : Cardinality({j \in kept : j < k}) = n - 1
    IN  [n \in 1..Cardinality(kept) |->
            <<startX + (Nth(n) % w), startY + (Nth(n) \div w)>>]

\* the door loop of ensureSpecialRoomConnectivity: each drawn index opens the
\* cell at that place of the list and is spliced out of it
RECURSIVE OpenDoors(_, _, _, _)
OpenDoors(m, cells, doors, i) ==
    IF i > Len(doors) \/ Len(cells) = 0 THEN m
    ELSE OpenDoors(ClearWalls(m, {cells[doors[i]]}), RemoveAt(cells, doors[i]),
                   doors, i + 1)

\* ensureSpecialRoomConnectivity; doors holds the indices drawn
ensureSpecialRoomConnectivity(m, startX, startY, pattern, doors) ==
    OpenDoors(m, perimeterCells(pattern, startX, startY, m.size), doors, 1)

\* generateSpecialRooms: a drawn room is placed when at most 30% of the cells
\* under its pattern hold a wall
RECURSIVE generateSpecialRooms(_, _, _)
generateSpecialRooms(m, specials, i) ==
    IF i > Len(specials) THEN m
    ELSE LET sp == specials[i]
             pattern == specialRoomTemplates[sp.template]
             under == {c \in ((sp.startX)..(sp.startX + Len(pattern[1]) - 1))
                               \X ((sp.startY)..(sp.startY + Len(pattern) - 1)) :
                          InGrid(m, c[1], c[2])}
             wallCells == Cardinality(under \cap m.walls)
             totalCells == Cardinality(under)
             placed == ClearWalls(
                           SetWalls(m, PatternCells(pattern, sp.startX, sp.startY, 1)
                                          \cap under),
                           PatternCells(pattern, sp.startX, sp.startY, 0) \cap under)
         IN  generateSpecialRooms(
                 IF wallCells * 10 > totalCells * 3 THEN m
                 ELSE ensureSpecialRoomConnectivity(placed, sp.startX, sp.startY,
                                                    pattern, sp.doors),
                 specials, i + 1)

\* the cells at Manhattan distance d from a cell
Ring(c, d) ==
    UNION {{<<c[1] + i, c[2] + (d - Abs(i))>>, <<c[1] + i, c[2] - (d - Abs(i))>>} :
              i \in (-d)..d}

\* closestReachable of connectUnreachableAreas: among the interior cells marked
\* reachable, one at the least Manhattan distance from the area, the first of
\* them in the scan by rows
closestReachable(area, reachable, size) ==
    LET marked == reachable \cap Interior(size)
        Hit(d) == Ring(area, d) \cap marked
        least == CHOOSE d \in 0..(2 * size) :
                    Hit(d) # {} /\ \A e \in 0..(d - 1) : Hit(e) = {}
    IN  CHOOSE c \in Hit(least) :
            \A o \in Hit(least) : c[2] < o[2] \/ (c[2] = o[2] /\ c[1] <= o[1])

\* a createPath that starts its vertical leg one cell after the corner
createPathPastCorner(m, from, to) ==
    LET Between(a, b) == IF a <= b THEN a..(b - 1) ELSE (b + 1)..a
        path == {<<x, from[2]>> : x \in Between(from[1], to[1])}
                \cup {<<to[1], y>> : y \in Between(from[2], to[2]) \ {from[2]}}
    IN  ClearWalls(m, path \cap Interior(m.size))

\* the cells createPath clears: along the row of `from` up to the column of
\* `to`, then along that column up to the row of `to`, both without `to` itself
createPath(m, from, to) ==
    LET Between(a, b) == IF a <= b THEN a..(b - 1) ELSE (b + 1)..a
        path == {<<x, from[2]>> : x \in Between(from[1], to[1])}
                \cup {<<to[1], y>> : y \in Between(from[2], to[2])}
    IN  ClearWalls(m, path \cap Interior(m.size))

\* connectUnreachableAreas: a path from every open interior cell that is not
\* marked reachable to the closest marked cell; the marks are those of the flood
\* fill made before the first path, and the paths only clear cells, so that the
\* order of the areas does not matter
connectUnreachableAreas(m, reachable) ==
    LET unreachableAreas == (Interior(m.size) \ m.walls) \ reachable
    IN  ClearWalls(m, UNION {m.walls \ createPath(m, area,
                                          closestReachable(area, reachable, m.size)).walls :
                                area \in unreachableAreas})

\* a createEmergencyConnections that leaves the player start area as it is
createEmergencyConnectionsRowsOnly(m, draw) ==
    LET midPoint == m.size \div 2
    IN  ClearWalls(m, {<<x, midPoint>> : x \in draw.row \cap (1..(m.size - 2))}
                          \cup {<<midPoint, y>> : y \in draw.col \cap (1..(m.size - 2))})

\* createEmergencyConnections: the drawn cells of the middle row and the middle
\* column are cleared, and the 3 x 3 block around the spawn cell
createEmergencyConnections(m, draw) ==
    LET midPoint == m.size \div 2
        row == {<<x, midPoint>> : x \in draw.row \cap (1..(m.size - 2))}
        col == {<<midPoint, y>> : y \in draw.col \cap (1..(m.size - 2))}
        start == {c \in ((midPoint - 1)..(midPoint + 1)) \X ((midPoint - 1)..(midPoint + 1)) :
                     c[1] > 0 /\ c[1] < m.size - 1 /\ c[2] > 0 /\ c[2] < m.size - 1}
    IN  ClearWalls(m, row \cup col \cup start)

----------------------------------------------------------------------------
(* The draws the generator's stages range over *)

\* a small room with one door, a room that overlaps it, and a large room with a
\* central pillar, an internal wall and two doors
SmallRoom == [x |-> 6, y |-> 6, width |-> 5, height |-> 5, pillar |-> FALSE,
              internal |-> <<>>, doors |-> {<<8, 6>>}]
OverlappingRoom == [x |-> 9, y |-> 9, width |-> 4, height |-> 4, pillar |-> FALSE,
                    internal |-> <<>>, doors |-> {<<10, 9>>}]
LargeRoom == [x |-> 40, y |-> 40, width |-> 10, height |-> 10, pillar |-> TRUE,
              internal |-> <<{42, 43, 44, 46, 47}>>, doors |-> {<<44, 40>>, <<49, 44>>}]

\* the rooms of one generateRooms call: every further draw overlapped a room
\* already placed
RoomDraws == {<<SmallRoom>>, <<SmallRoom, OverlappingRoom, LargeRoom>>}

\* the corridors of one generateDenseCorridors call: every further draw
\* repeated one of these
CorridorDraws ==
    {{[startX |-> 3, startY |-> 8, dx |-> 1, dy |-> 0, length |-> 15]},
     {[startX |-> 3, startY |-> 8, dx |-> 1, dy |-> 0, length |-> 15],
      [startX |-> 38, startY |-> 38, dx |-> 1, dy |-> 1, length |-> 34]}}

\* the pillars of one generatePillars call, every further draw having hit a
\* wall: a pillar three cells east of the spawn cell, a pillar in the door of
\* the small room, and a pillar west of the spawn cell on the middle row with a
\* cluster on its four sides
ArenaPillar(size) == [x |-> size \div 2 + 3, y |-> size \div 2, cluster |-> <<>>]
DoorPillar == [x |-> 8, y |-> 6, cluster |-> <<>>]
PlusPillar(size) == [x |-> size \div 2 - 12, y |-> size \div 2,
                     cluster |-> <<<<1, 0>>, <<-1, 0>>, <<0, 1>>, <<0, -1>>>>]

StartPillar(size) == [x |-> size \div 2, y |-> size \div 2 + 1, cluster |-> <<>>]

PillarDraws(size) == {<<ArenaPillar(size)>>,
                      <<ArenaPillar(size), StartPillar(size)>>,
                      <<ArenaPillar(size), DoorPillar>>,
                      <<ArenaPillar(size), PlusPillar(size)>>,
                      <<ArenaPillar(size), DoorPillar, PlusPillar(size)>>}

\* the special rooms of one generateSpecialRooms call, every further draw
\* having fallen on one already placed: a circular room with one door, and the
\* complex structure with one door
SpecialDraws == {<<[template |-> 3, startX |-> 30, startY |-> 10, doors |-> <<1>>]>>,
                 <<[template |-> 3, startX |-> 30, startY |-> 10, doors |-> <<1>>],
                   [template |-> 6, startX |-> 10, startY |-> 45, doors |-> <<2>>]>>}

\* the cells whose 30% draw createEmergencyConnections wins: at most MaxClears,
\* among four cells of the middle row and three of the middle column
EmergencyDraws(size) ==
    {d \in [row : SUBSET {size \div 2 - 13, size \div 2 - 12, size \div 2 - 11,
                          size \div 2 + 3},
            col : SUBSET {10, 14, size \div 2 - 12}] :
        Cardinality(d.row) + Cardinality(d.col) <= MaxClears}

----------------------------------------------------------------------------
(* GameStateManager: the state and its simple operations *)

\* createInitialState, given the grid generateWorldMapWithTheme returned
createInitialState(worldMap) ==
    [player |-> [x |-> (worldMap.size * PosScale) \div 2,
                 y |-> (worldMap.size * PosScale) \div 2,
                 angle |-> 0,
                 health |-> 100,
                 ammo |-> [pistol |-> 50, shotgun |-> 0, chaingun |-> 0],
                 maxHealth |-> 100,
                 maxAmmo |-> [pistol |-> 200, shotgun |-> 50, chaingun |-> 200],
                 weapon |-> "pistol",
                 availableWeapons |-> {"pistol"},
                 isAttacking |-> FALSE,
                 attackTimer |-> 0,
                 muzzleFlash |-> FALSE,
                 muzzleFlashTimer |-> 0],
     enemies |-> <<>>,
     pickups |-> <<>>,
     gameStatus |-> "playing",
     worldMap |-> worldMap,
     lastUpdateTime |-> 0,
     accumulator |-> 0,
     isPaused |-> FALSE,
     nextPickupId |-> 1,
     nextEnemyId |-> 1,
     worldSize |-> worldMap.size,
     currentFloor |-> 1,
     floorTheme |-> getFloorTheme(1),
     isBossFloor |-> (1 % 5 = 0),
     bossDefeated |-> FALSE]

\* pause
pause(s) ==
    IF s.gameStatus = "playing"
    THEN [s EXCEPT !.isPaused = TRUE, !.gameStatus = "paused"]
    ELSE s

\* resume
resume(s) ==
    IF s.gameStatus = "paused"
    THEN [s EXCEPT !.isPaused = FALSE, !.gameStatus = "playing", !.accumulator = 0]
    ELSE s

\* togglePause
togglePause(s) == IF s.isPaused THEN resume(s) ELSE pause(s)

\* a switchWeapon that takes any weapon
canSwitchWeaponAny(s, weapon) == weapon \in DOMAIN s.player.ammo

\* switchWeapon: whether it returns true; it notifies the listeners exactly then
canSwitchWeapon(s, weapon) == weapon \in s.player.availableWeapons

\* switchWeapon: the state afterwards
switchWeapon(s, weapon) ==
    IF canSwitchWeapon(s, weapon)
    THEN [s EXCEPT !.player.weapon = weapon]
    ELSE s

\* a shoot that does not look at isPaused
canShootWhilePaused(s) ==
    ~(s.gameStatus \notin {"playing", "paused"} \/ s.player.ammo[s.player.weapon] <= 0)

\* shoot: whether it returns true
canShoot(s) ==
    ~(s.gameStatus # "playing" \/ s.isPaused \/ s.player.ammo[s.player.weapon] <= 0)

\* shoot: whether it calls notifyListeners
shootNotifies(s) == canShoot(s)

\* shoot: the state afterwards
shoot(s) ==
    IF ~canShoot(s) THEN s
    ELSE LET stats == WEAPON_STATS[s.player.weapon]
         IN  [s EXCEPT !.player.ammo[s.player.weapon] = @ - stats.ammoUse,
                       !.player.isAttacking = TRUE,
                       !.player.attackTimer = stats.attackDuration,
                       !.player.muzzleFlash = TRUE,
                       !.player.muzzleFlashTimer = stats.muzzleDuration]

getWeaponDamage(s) == WEAPON_STATS[s.player.weapon].damage
getWeaponRange(s) == WEAPON_STATS[s.player.weapon].range
getWeaponAccuracy(s) == WEAPON_STATS[s.player.weapon].accuracy

----------------------------------------------------------------------------
(* GameStateManager: the fixed step *)

\* updatePlayerAttackState
updatePlayerAttackState(s) ==
    LET p == s.player
        at == IF p.attackTimer > 0 THEN p.attackTimer - 1 ELSE p.attackTimer
        mt == IF p.muzzleFlashTimer > 0 THEN p.muzzleFlashTimer - 1
              ELSE p.muzzleFlashTimer
    IN  [s EXCEPT !.player.attackTimer = at,
                  !.player.isAttacking =
                      IF p.attackTimer > 0 /\ at = 0 THEN FALSE ELSE @,
                  !.player.muzzleFlashTimer = mt,
                  !.player.muzzleFlash =
                      IF p.muzzleFlashTimer > 0 /\ mt = 0 THEN FALSE ELSE @]

\* a collectPickup that adds ammunition without the cap
collectPickupUncapped(s, p) ==
    CASE p.type = "health" ->
            [s EXCEPT !.player.health = Min(@ + p.value, s.player.maxHealth)]
      [] p.type = "ammo" ->
            [s EXCEPT !.player.ammo[s.player.weapon] = @ + p.value]
      [] p.type = "weapon" ->
            IF p.weaponType # None
            THEN [s EXCEPT !.player.availableWeapons = @ \cup {p.weaponType},
                           !.player.weapon = p.weaponType,
                           !.player.ammo[p.weaponType] = @ + p.value]
            ELSE s

\* a collectPickup that equips the weapon without adding it to the set
collectPickupEquipsOnly(s, p) ==
    CASE p.type = "health" ->
            [s EXCEPT !.player.health = Min(@ + p.value, s.player.maxHealth)]
      [] p.type = "ammo" ->
            [s EXCEPT !.player.ammo[s.player.weapon] =
                          Min(@ + p.value, s.player.maxAmmo[s.player.weapon])]
      [] p.type = "weapon" ->
            IF p.weaponType # None
            THEN [s EXCEPT !.player.weapon = p.weaponType,
                           !.player.ammo[p.weaponType] =
                               Min(@ + p.value, s.player.maxAmmo[p.weaponType])]
            ELSE s

\* collectPickup
collectPickup(s, p) ==
    CASE p.type = "health" ->
            [s EXCEPT !.player.health = Min(@ + p.value, s.player.maxHealth)]
      [] p.type = "ammo" ->
            LET currentWeapon == s.player.weapon
            IN  [s EXCEPT !.player.ammo[currentWeapon] =
                              Min(@ + p.value, s.player.maxAmmo[currentWeapon])]
      [] p.type = "weapon" ->
            IF p.weaponType # None
            THEN [s EXCEPT !.player.availableWeapons = @ \cup {p.weaponType},
                           !.player.weapon = p.weaponType,
                           !.player.ammo[p.weaponType] =
                               Min(@ + p.value,
                                   s.player.maxAmmo[p.weaponType])]
            ELSE s

PICKUP_RANGE == 8       \* 0.8 cells, in tenths

\* a sweep that applies each pickup within range twice before removing it
RECURSIVE PickupSweepTwice(_, _)
PickupSweepTwice(s, i) ==
    IF i < 1 THEN s
    ELSE LET pickup == s.pickups[i]
         IN  IF DistSq(pickup.x, pickup.y, s.player.x, s.player.y)
                   < TenthsSq(PICKUP_RANGE)
             THEN PickupSweepTwice(
                      [collectPickup(collectPickup(s, pickup), pickup) EXCEPT
                          !.pickups = RemoveAt(s.pickups, i)], i - 1)
             ELSE PickupSweepTwice(s, i - 1)

\* updatePickupCollection: the sweep from the last pickup down to the first
RECURSIVE PickupSweep(_, _)
PickupSweep(s, i) ==
    IF i < 1 THEN s
    ELSE LET pickup == s.pickups[i]
             near == DistSq(pickup.x, pickup.y, s.player.x, s.player.y)
                        < TenthsSq(PICKUP_RANGE)
         IN  IF near
             THEN PickupSweep([collectPickup(s, pickup) EXCEPT
                                   !.pickups = RemoveAt(s.pickups, i)], i - 1)
             ELSE PickupSweep(s, i - 1)

updatePickupCollection(s) == PickupSweep(s, Len(s.pickups))

\* an updateGameStatus that tests the enemies before the health
updateGameStatusVictoryFirst(s) ==
    IF Len(s.enemies) = 0
    THEN [s EXCEPT !.gameStatus = "victory", !.isPaused = FALSE]
    ELSE IF s.player.health <= 0
    THEN [s EXCEPT !.gameStatus = "defeat", !.isPaused = FALSE]
    ELSE s

\* updateGameStatus
updateGameStatus(s) ==
    IF s.player.health <= 0
    THEN [s EXCEPT !.gameStatus = "defeat", !.isPaused = FALSE]
    ELSE IF Len(s.enemies) = 0
    THEN [s EXCEPT !.gameStatus = "victory", !.isPaused = FALSE]
    ELSE s

\* a fixedUpdate that evaluates the status before it collects the pickups
fixedUpdateStatusFirst(s) ==
    IF s.gameStatus # "playing" THEN s
    ELSE updatePickupCollection(updateGameStatus(updatePlayerAttackState(s)))

\* fixedUpdate
fixedUpdate(s) ==
    IF s.gameStatus # "playing" THEN s
    ELSE updateGameStatus(updatePickupCollection(updatePlayerAttackState(s)))

\* an `if` in place of the while loop: at most one fixedUpdate per call
FixedStepsOnce(s, n) ==
    IF s.accumulator >= FIXED_TIMESTEP
    THEN [s |-> [fixedUpdate(s) EXCEPT !.accumulator = s.accumulator - FIXED_TIMESTEP],
          n |-> n + 1]
    ELSE [s |-> s, n |-> n]

\* the while loop of updateWithDeltaTime: the state afterwards and the number
\* of times fixedUpdate was called
RECURSIVE FixedSteps(_, _)
FixedSteps(s, n) ==
    IF s.accumulator >= FIXED_TIMESTEP
    THEN FixedSteps([fixedUpdate(s) EXCEPT !.accumulator = s.accumulator - FIXED_TIMESTEP],
                    n + 1)
    ELSE [s |-> s, n |-> n]

----------------------------------------------------------------------------
(* GameStateManager: enemies *)

NewEnemy(id, x, y, enemyType, maxHealth, enemyState, explorationCooldown) ==
    [id |-> id, x |-> x, y |-> y, health |-> maxHealth, maxHealth |-> maxHealth,
     state |-> enemyState, lastPlayerX |-> 0, lastPlayerY |-> 0,
     attackCooldown |-> 0, patrolTarget |-> <<>>, enemyType |-> enemyType,
     explorationCooldown |-> explorationCooldown, explorationDirection |-> <<>>,
     isBoss |-> FALSE, spawnCooldown |-> 0, spawnsRemaining |-> 0,
     phaseTransitions |-> <<>>, currentPhase |-> 0,
     isHurt |-> FALSE, hurtTimer |-> 0]

\* the size of the grid of a floor
\* worldSize of createInitialState
worldSize == 64

FloorSize(nextFloor) == Min(64 + (nextFloor \div 5) * 8, 96)

Centre(size) == (size * PosScale) \div 2

\* the first boss floor: nextFloor % 5 === 0
BossFloor == 5

\* the grid generateWorldMapWithTheme returns when its draws place the small
\* room with its door, one corridor through the room in each corridor pass, a
\* pillar three cells east of the spawn cell and the circular room with one
\* door, and the emergency pass wins no draw
GeneratedMaps(size) ==
    {[size |-> size,
      walls |-> BorderCells(size)
                \cup ({6, 10} \X {6, 7, 10}) \cup ({7, 9} \X {6, 10}) \cup {<<8, 10>>}
                \cup ({30, 34} \X (11..13)) \cup ({32, 33} \X {10, 14}) \cup {<<31, 14>>}
                \cup {<<size \div 2 + 3, size \div 2>>}]}

\* the cells floodFill marks from the spawn cell, for each grid of the game
SpawnReach ==
    [m \in UNION {GeneratedMaps(FloorSize(f)) :
                     f \in (1..(MaxFloor + 1)) \cup {BossFloor, BossFloor + 1}} |->
        floodFill(m, m.size \div 2, m.size \div 2)]

\* the test generateRandomEnemies makes on a drawn position: an open cell, more
\* than 5 cells from the spawn point, reached by the flood fill from the spawn cell
EnemySpotOk(m, x, y) ==
    /\ Passable(m, Floor(x), Floor(y))
    /\ DistSq(x, y, (m.size * PosScale) \div 2, (m.size * PosScale) \div 2)
          > TenthsSq(50)
    /\ <<Floor(x), Floor(y)>> \in (IF m \in DOMAIN SpawnReach THEN SpawnReach[m]
                                   ELSE floodFill(m, m.size \div 2, m.size \div 2))

\* generateRandomEnemies(worldMap, size) once this.state exists: one loop turn per
\* draw (position, class, health, exploration cooldown); a turn whose position
\* fails the test places nothing.  Returns the enemies and the next enemy id.
RECURSIVE PlaceEnemies(_, _, _, _)
PlaceEnemies(m, draws, enemies, nextId) ==
    IF draws = <<>> THEN [enemies |-> enemies, nextEnemyId |-> nextId]
    ELSE LET d == Head(draws)
         IN  IF EnemySpotOk(m, d.x, d.y)
             THEN PlaceEnemies(m, Tail(draws),
                      Append(enemies, NewEnemy(nextId, d.x, d.y, d.enemyType,
                                               d.maxHealth, "idle",
                                               d.explorationCooldown)),
                      nextId + 1)
             ELSE PlaceEnemies(m, Tail(draws), enemies, nextId)

generateRandomEnemies(s, m, draws) == PlaceEnemies(m, draws, <<>>, s.nextEnemyId)

\* initializeEnemiesAfterState
initializeEnemiesAfterState(s, draws) ==
    LET g == generateRandomEnemies(s, s.worldMap, draws)
    IN  [s EXCEPT !.enemies = g.enemies, !.nextEnemyId = g.nextEnemyId]

\* updateWithDeltaTime(currentTime): the state afterwards and the number of
\* fixed steps attempted
updateWithDeltaTime(s, currentTime, draws) ==
    IF s.isPaused
    THEN [s |-> [s EXCEPT !.lastUpdateTime = currentTime], n |-> 0]
    ELSE IF s.lastUpdateTime = 0
    THEN [s |-> IF Len(s.enemies) = 0
                THEN initializeEnemiesAfterState(
                         [s EXCEPT !.lastUpdateTime = currentTime], draws)
                ELSE [s EXCEPT !.lastUpdateTime = currentTime],
          n |-> 0]
    ELSE LET deltaTime == currentTime - s.lastUpdateTime
         IN  FixedSteps([s EXCEPT !.lastUpdateTime = currentTime,
                                  !.accumulator = @ + deltaTime], 0)

----------------------------------------------------------------------------
(* GameStateManager: enemy AI (updateEnemies).  r holds the values the      *)
(* Math.random() calls of one update return.                                *)

\* a detection range of 5 cells for every class
detectionRangeShort(e) == 5

\* detectionRange, in cells
detectionRange(e) ==
    IF e.isBoss THEN 25
    ELSE IF e.enemyType = "captain" THEN 12
    ELSE IF e.enemyType = "soldier" THEN 10
    ELSE 8

\* moveSpeed, in position units per update (0.045, 0.035, 0.03, 0.025 cells)
moveSpeed(e) ==
    IF e.isBoss THEN (45 * PosScale) \div 1000
    ELSE IF e.enemyType = "captain" THEN (35 * PosScale) \div 1000
    ELSE IF e.enemyType = "soldier" THEN (30 * PosScale) \div 1000
    ELSE (25 * PosScale) \div 1000

\* the melee damage of the attacking case
meleeDamage(e) ==
    IF e.enemyType = "captain" THEN 15
    ELSE IF e.enemyType = "soldier" THEN 12
    ELSE 10

\* a cooldown of 30 updates for every class
meleeCooldownShort(e) == 30

\* the cooldown the attacking case sets
meleeCooldown(e) == IF e.enemyType = "captain" THEN 45 ELSE 60

Directions == <<[dx |-> 1, dy |-> 0], [dx |-> -1, dy |-> 0], [dx |-> 0, dy |-> 1],
                [dx |-> 0, dy |-> -1], [dx |-> 1, dy |-> 1], [dx |-> -1, dy |-> 1],
                [dx |-> 1, dy |-> -1], [dx |-> -1, dy |-> -1]>>

\* isPathClear
isPathClear(s, startX, startY, directionX, directionY, distance) ==
    \A i \in 1..distance :
        LET checkX == Floor(startX + directionX * i * PosScale)
            checkY == Floor(startY + directionY * i * PosScale)
        IN  /\ ~(checkX < 1 \/ checkX >= s.worldSize - 1 \/
                 checkY < 1 \/ checkY >= s.worldSize - 1)
            /\ <<checkX, checkY>> \notin s.worldMap.walls

\* startEnemyExploration
startEnemyExploration(s, enemy, r) ==
    LET direction == Directions[r.dir]
        explorationDistance == r.explorationDistance
    IN  IF isPathClear(s, enemy.x, enemy.y, direction.dx, direction.dy,
                       explorationDistance)
        THEN [enemy EXCEPT !.explorationDirection = <<direction>>,
                           !.explorationCooldown = explorationDistance * 30]
        ELSE [enemy EXCEPT !.explorationCooldown = 120 + r.wait180]

\* continueEnemyExploration
continueEnemyExploration(s, enemy, baseSpeed, r) ==
    IF enemy.explorationDirection = <<>> THEN enemy
    ELSE LET explorationSpeed == (baseSpeed * 7) \div 10
             newX == enemy.x + enemy.explorationDirection[1].dx * explorationSpeed
             newY == enemy.y + enemy.explorationDirection[1].dy * explorationSpeed
             moved == IF Passable(s.worldMap, Floor(newX), Floor(newY))
                      THEN [enemy EXCEPT !.x = newX, !.y = newY]
                      ELSE [enemy EXCEPT !.explorationDirection = <<>>,
                                         !.explorationCooldown = 180 + r.wait240]
         IN  IF moved.explorationCooldown <= 0
             THEN [moved EXCEPT !.explorationDirection = <<>>,
                                !.explorationCooldown = 240 + r.wait360]
             ELSE moved

\* a phase transition that moves straight to the phase the boss's health calls for
checkBossPhaseTransitionAtOnce(boss) ==
    IF ~boss.isBoss \/ Len(boss.phaseTransitions) = 0 THEN boss
    ELSE LET due == {p \in boss.currentPhase + 1..Len(boss.phaseTransitions) :
                        boss.health * 100 <= boss.phaseTransitions[p] * boss.maxHealth}
         IN  IF due = {} THEN boss
             ELSE [boss EXCEPT !.currentPhase = CHOOSE p \in due : \A q \in due : q <= p,
                               !.spawnCooldown = 60]

\* checkBossPhaseTransition; phaseTransitions holds the thresholds as percentages
\* of maxHealth
checkBossPhaseTransition(boss) ==
    IF ~boss.isBoss \/ Len(boss.phaseTransitions) = 0 THEN boss
    ELSE IF /\ boss.currentPhase < Len(boss.phaseTransitions)
            /\ boss.health * 100
                  <= boss.phaseTransitions[boss.currentPhase + 1] * boss.maxHealth
    THEN LET b == [boss EXCEPT !.currentPhase = @ + 1]
         IN  CASE boss.enemyType = "boss_demon" -> [b EXCEPT !.spawnCooldown = 60]
               [] boss.enemyType = "boss_cyberdemon" ->
                      [b EXCEPT !.attackCooldown = Max(10, @ - 20)]
               [] boss.enemyType = "boss_spider_mastermind" ->
                      [b EXCEPT !.spawnCooldown = 30, !.spawnsRemaining = @ + 2]
               [] OTHER -> b
    ELSE boss

\* the class and health of a minion, by the boss's class and the drawn rolls
MinionType(b, r) ==
    CASE b.enemyType = "boss_demon" -> IF r.roll1 THEN "grunt" ELSE "soldier"
      [] b.enemyType = "boss_cyberdemon" -> IF r.roll1 THEN "soldier" ELSE "captain"
      [] b.enemyType = "boss_spider_mastermind" ->
             IF r.roll1 THEN "grunt" ELSE IF r.roll2 THEN "soldier" ELSE "captain"
      [] OTHER -> "grunt"

MinionHealth(b, t) ==
    CASE b.enemyType = "boss_demon" -> IF t = "grunt" THEN 25 ELSE 35
      [] b.enemyType = "boss_cyberdemon" -> IF t = "soldier" THEN 40 ELSE 55
      [] b.enemyType = "boss_spider_mastermind" ->
             IF t = "grunt" THEN 30
             ELSE IF t = "soldier" THEN 45 ELSE 60
      [] OTHER -> 25

\* spawnBossMinion for the boss at index i: the first drawn spot that is an open
\* cell more than 4 cells from the player gets the minion (r.spots lists the draws)
RECURSIVE SpawnAt(_, _, _, _)
SpawnAt(s, i, spots, r) ==
    IF spots = <<>> THEN s
    ELSE LET boss == s.enemies[i]
             spawnX == boss.x + Head(spots).dx
             spawnY == boss.y + Head(spots).dy
         IN  IF /\ Passable(s.worldMap, Floor(spawnX), Floor(spawnY))
                /\ DistSq(spawnX, spawnY, s.player.x, s.player.y) > TenthsSq(40)
             THEN LET minionType == MinionType(boss, r)
                      minionHealth == MinionHealth(boss, minionType)
                      minion == [NewEnemy(s.nextEnemyId, spawnX, spawnY, minionType,
                                          minionHealth, "chasing", 0)
                                    EXCEPT !.lastPlayerX = s.player.x,
                                           !.lastPlayerY = s.player.y]
                  IN  [s EXCEPT !.nextEnemyId = @ + 1,
                                !.enemies = Append(
                                    [@ EXCEPT ![i].spawnsRemaining = @ - 1,
                                              ![i].spawnCooldown = 120 + r.wait180],
                                    minion)]
             ELSE SpawnAt(s, i, Tail(spots), r)

\* a spawn loop that does not stop at the first minion placed
spawnBossMinionNoBreak(s, i, r) ==
    IF s.enemies[i].spawnsRemaining <= 0 THEN s
    ELSE SpawnAt(SpawnAt(s, i, r.spots, r), i, r.spots, r)

spawnBossMinion(s, i, r) ==
    IF s.enemies[i].spawnsRemaining <= 0 THEN s ELSE SpawnAt(s, i, r.spots, r)

\* (d / distance) * speed, the component of one movement step
StepTowards(d, distance, speed) == (d * speed) \div distance

\* the boss part of the forEach callback for the enemy at index i, after its timers
bossUpdate(s, i) ==
    LET e == s.enemies[i]
    IN  IF ~e.isBoss THEN s
        ELSE LET b1 == IF e.spawnCooldown > 0
                       THEN [e EXCEPT !.spawnCooldown = @ - 1] ELSE e
                 b2 == checkBossPhaseTransition(b1)
             IN  [s EXCEPT !.enemies[i] = b2]

\* the state switch of the forEach callback, given the squared distance to the
\* player and canSeePlayer; returns the state with the enemy at index i and the
\* player's health updated
enemySwitch(s, i, dSq, sees, r) ==
    LET e == s.enemies[i]
        speed == moveSpeed(e)
        seen == sees /\ dSq < (detectionRange(e) * PosScale) * (detectionRange(e) * PosScale)
        chase == [e EXCEPT !.state = "chasing", !.lastPlayerX = s.player.x,
                           !.lastPlayerY = s.player.y]
    IN  CASE e.state = "idle" ->
               [s EXCEPT !.enemies[i] =
                   IF seen THEN chase
                   ELSE IF e.explorationCooldown <= 0
                   THEN startEnemyExploration(s, e, r)
                   ELSE IF r.patrol
                   THEN [e EXCEPT !.state = "patrolling",
                                  !.patrolTarget = <<[x |-> e.x + r.patrolDx,
                                                      y |-> e.y + r.patrolDy]>>]
                   ELSE e]
          [] e.state = "patrolling" ->
               [s EXCEPT !.enemies[i] =
                   IF seen THEN chase
                   ELSE IF e.explorationCooldown <= 0
                   THEN startEnemyExploration(s, e, r)
                   ELSE IF e.patrolTarget # <<>>
                   THEN LET dx == e.patrolTarget[1].x - e.x
                            dy == e.patrolTarget[1].y - e.y
                            distance == Sqrt(dx * dx + dy * dy)
                        IN  IF dx * dx + dy * dy > TenthsSq(1)
                            THEN LET newX == e.x + StepTowards(dx, distance, speed)
                                     newY == e.y + StepTowards(dy, distance, speed)
                                 IN  IF Passable(s.worldMap, Floor(newX), Floor(newY))
                                     THEN [e EXCEPT !.x = newX, !.y = newY]
                                     ELSE e
                            ELSE [e EXCEPT !.state = "idle", !.patrolTarget = <<>>]
                   ELSE e]
          [] e.state = "chasing" ->
               LET c1 == IF sees
                         THEN [e EXCEPT !.lastPlayerX = s.player.x,
                                        !.lastPlayerY = s.player.y]
                         ELSE e
               IN  [s EXCEPT !.enemies[i] =
                       IF dSq < TenthsSq(15)
                       THEN [c1 EXCEPT !.state = "attacking"]
                       ELSE LET dx == c1.lastPlayerX - c1.x
                                dy == c1.lastPlayerY - c1.y
                                distance == Sqrt(dx * dx + dy * dy)
                                fast == (speed * 3) \div 2
                                newX == c1.x + StepTowards(dx, distance, fast)
                                newY == c1.y + StepTowards(dy, distance, fast)
                                c2 == IF /\ dx * dx + dy * dy > TenthsSq(1)
                                         /\ Passable(s.worldMap, Floor(newX), Floor(newY))
                                      THEN [c1 EXCEPT !.x = newX, !.y = newY]
                                      ELSE c1
                            IN  IF ~sees /\ dSq > TenthsSq(100)
                                THEN [c2 EXCEPT !.state = "idle"]
                                ELSE c2]
          [] e.state = "attacking" ->
               IF dSq > TenthsSq(25)
               THEN [s EXCEPT !.enemies[i].state = "chasing"]
               ELSE IF e.attackCooldown = 0
               THEN [s EXCEPT !.player.health = @ - meleeDamage(e),
                              !.enemies[i].attackCooldown = meleeCooldown(e)]
               ELSE s
          [] OTHER -> s

\* the forEach callback of updateEnemies for the enemy at index i
updateEnemy(s, i, r) ==
    LET e0 == s.enemies[i]
        distSq == DistSq(e0.x, e0.y, s.player.x, s.player.y)
        e1 == [e0 EXCEPT
                 !.attackCooldown = IF @ > 0 THEN @ - 1 ELSE @,
                 !.explorationCooldown = IF @ > 0 THEN @ - 1 ELSE @,
                 !.hurtTimer = IF @ > 0 THEN @ - 1 ELSE @,
                 !.isHurt = IF e0.hurtTimer = 1 THEN FALSE ELSE @]
        s1 == bossUpdate([s EXCEPT !.enemies[i] = e1], i)
        s2 == IF /\ e0.isBoss
                 /\ s1.enemies[i].spawnsRemaining > 0
                 /\ s1.enemies[i].spawnCooldown <= 0
                 /\ distSq < TenthsSq(200)
                 /\ distSq > TenthsSq(80)
              THEN spawnBossMinion(s1, i, r) ELSE s1
        angleToPlayer == Atan2(s.player.y - e0.y, s.player.x - e0.x)
        hit == castRay(e0.x, e0.y, angleToPlayer, s.worldMap)
        canSeePlayer == hit * hit > distSq
        s3 == enemySwitch(s2, i, distSq, canSeePlayer, r)
        e3 == s3.enemies[i]
    IN  IF e3.explorationDirection # <<>> /\ e3.state \in {"idle", "patrolling"}
        THEN [s3 EXCEPT !.enemies[i] = continueEnemyExploration(s3, e3, moveSpeed(e3), r)]
        ELSE s3

RECURSIVE EachEnemy(_, _, _, _)
EachEnemy(s, i, n, r) ==
    IF i > n THEN s ELSE EachEnemy(updateEnemy(s, i, r), i + 1, n, r)

\* updateEnemies(castRayFunction)
updateEnemies(s, r) ==
    IF s.gameStatus # "playing" \/ s.isPaused THEN s
    ELSE EachEnemy(s, 1, Len(s.enemies), r)

----------------------------------------------------------------------------
(* GameStateManager: damage, drops, floor progression, reset *)

\* spawnPickup; d holds the drawn position offsets
spawnPickup(s, x, y, type, value, weaponType, d) ==
    [s EXCEPT !.nextPickupId = @ + 1,
              !.pickups = Append(@, [id |-> s.nextPickupId,
                                     x |-> x + d.offsetX, y |-> y + d.offsetY,
                                     type |-> type, value |-> value,
                                     spawnTime |-> s.lastUpdateTime,
                                     weaponType |-> weaponType])]

\* spawnEnemyDrops; d.health, d.ammo, d.weapon tell whether the draw fell under the
\* class's drop chance, which for a boss is 1.0 for health and ammo
spawnEnemyDrops(s, x, y, enemyType, d) ==
    LET always == enemyType \notin EnemyTypes
        s1 == IF always \/ d.health
              THEN spawnPickup(s, x, y, "health", d.healthValue, None, d) ELSE s
        s2 == IF always \/ d.ammo
              THEN spawnPickup(s1, x, y, "ammo", d.ammoValue, None, d) ELSE s1
    IN  IF enemyType = "boss_spider_mastermind" \/ d.weapon
        THEN spawnPickup(s2, x, y, "weapon",
                         IF d.weaponType = "shotgun" THEN 12 ELSE 30, d.weaponType, d)
        ELSE s2

\* Array.prototype.findIndex((e) => e.id === enemyId), 0 when there is none
FirstIndex(enemies, enemyId) ==
    IF \E i \in 1..Len(enemies) : enemies[i].id = enemyId
    THEN CHOOSE i \in 1..Len(enemies) :
            /\ enemies[i].id = enemyId
            /\ \A j \in 1..(i - 1) : enemies[j].id # enemyId
    ELSE 0

\* a damageEnemy that marks the hit and schedules the check but leaves the dead
\* enemy in the array
damageEnemyKeepsDead(s, enemyId, damage, d) ==
    LET i == FirstIndex(s.enemies, enemyId)
    IN  IF i = 0 THEN [s |-> s, scheduled |-> FALSE]
        ELSE LET s1 == [s EXCEPT !.enemies[i].health = @ - damage,
                                 !.enemies[i].isHurt = TRUE,
                                 !.enemies[i].hurtTimer = 5]
             IN  [s |-> s1, scheduled |-> s1.enemies[i].health <= 0]

\* damageEnemy(enemyId, damage): the state afterwards, and whether the 100 ms
\* check of the floor was scheduled
damageEnemy(s, enemyId, damage, d) ==
    LET i == FirstIndex(s.enemies, enemyId)
    IN  IF i = 0 THEN [s |-> s, scheduled |-> FALSE]
        ELSE LET s1 == [s EXCEPT !.enemies[i].health = @ - damage,
                                 !.enemies[i].isHurt = TRUE,
                                 !.enemies[i].hurtTimer = 5]
                 enemy == s1.enemies[i]
             IN  IF enemy.health <= 0
                 THEN LET s2 == spawnEnemyDrops(s1, enemy.x, enemy.y,
                                                enemy.enemyType, d)
                      IN  [s |-> [s2 EXCEPT !.enemies = RemoveAt(@, i)],
                           scheduled |-> TRUE]
                 ELSE [s |-> s1, scheduled |-> FALSE]

\* a checkFloorProgression that schedules the advance on boss floors only
checkFloorProgressionBossOnly(s) ==
    LET aliveEnemies == {i \in 1..Len(s.enemies) : s.enemies[i].health > 0}
    IN  IF s.isBossFloor /\ aliveEnemies = {}
        THEN [s |-> [s EXCEPT !.bossDefeated = TRUE], scheduled |-> TRUE]
        ELSE [s |-> s, scheduled |-> FALSE]

\* checkFloorProgression: the state afterwards, and whether the floor advance was
\* scheduled
checkFloorProgression(s) ==
    LET aliveBosses == {i \in 1..Len(s.enemies) :
                            s.enemies[i].isBoss /\ s.enemies[i].health > 0}
        aliveEnemies == {i \in 1..Len(s.enemies) : s.enemies[i].health > 0}
    IN  IF s.isBossFloor
        THEN IF aliveEnemies = {} /\ aliveBosses = {}
             THEN [s |-> [s EXCEPT !.bossDefeated = TRUE], scheduled |-> TRUE]
             ELSE [s |-> s, scheduled |-> FALSE]
        ELSE [s |-> s, scheduled |-> aliveEnemies = {}]

\* the boss record generateBossEnemy builds; thresholds as percentages of maxHealth
BossAt(id, x, y, floorNumber) ==
    LET bossType == BossTypes[((floorNumber \div 5) % Len(BossTypes)) + 1]
        maxHealth == CASE bossType = "boss_demon" -> 150 + floorNumber * 20
                       [] bossType = "boss_cyberdemon" -> 200 + floorNumber * 25
                       [] OTHER -> 250 + floorNumber * 30
        spawnsRemaining == CASE bossType = "boss_demon" -> 3 + floorNumber \div 5
                             [] bossType = "boss_cyberdemon" -> 4 + floorNumber \div 5
                             [] OTHER -> 5 + floorNumber \div 5
        phaseTransitions == CASE bossType = "boss_demon" -> <<75, 50, 25>>
                              [] bossType = "boss_cyberdemon" -> <<80, 60, 40, 20>>
                              [] OTHER -> <<85, 70, 55, 40, 25>>
    IN  [NewEnemy(id, x, y, bossType, maxHealth, "idle", 0)
            EXCEPT !.isBoss = TRUE, !.spawnsRemaining = spawnsRemaining,
                   !.phaseTransitions = phaseTransitions]

\* generateBossEnemy: the boss at the first drawn spot that is an open cell more
\* than 15 cells from the spawn point, as a sequence of at most one enemy
RECURSIVE generateBossEnemy(_, _, _, _)
generateBossEnemy(s, m, floorNumber, spots) ==
    IF spots = <<>> THEN <<>>
    ELSE LET p == Head(spots)
         IN  IF /\ Passable(m, Floor(p.x), Floor(p.y))
                /\ DistSq(p.x, p.y, (m.size * PosScale) \div 2,
                          (m.size * PosScale) \div 2) > TenthsSq(150)
             THEN <<BossAt(s.nextEnemyId, p.x, p.y, floorNumber)>>
             ELSE generateBossEnemy(s, m, floorNumber, Tail(spots))

\* generateRandomPickups: one loop turn per draw
RECURSIVE generateRandomPickups(_, _)
generateRandomPickups(s, draws) ==
    IF draws = <<>> THEN s
    ELSE LET p == Head(draws)
             ok == /\ Passable(s.worldMap, Floor(p.x), Floor(p.y))
                   /\ DistSq(p.x, p.y, (s.worldSize * PosScale) \div 2,
                             (s.worldSize * PosScale) \div 2) > TenthsSq(30)
         IN  generateRandomPickups(
                 IF ok THEN spawnPickup(s, p.x, p.y, p.type, p.value, p.weaponType, p)
                 ELSE s,
                 Tail(draws))

\* a progressToNextFloor that heals the player fully
progressToNextFloorFullHeal(s, worldMap, g) ==
    IF Len(s.enemies) = 0 \/ (s.isBossFloor /\ s.bossDefeated)
    THEN LET nextFloor == s.currentFloor + 1
             isBossFloor == nextFloor % 5 = 0
             nextSize == FloorSize(nextFloor)
             s1 == [s EXCEPT
                      !.player.x = (nextSize * PosScale) \div 2,
                      !.player.y = (nextSize * PosScale) \div 2,
                      !.player.angle = 0,
                      !.player.health = s.player.maxHealth,
                      !.player.ammo.pistol = Min(s.player.maxAmmo.pistol, @ + 20),
                      !.player.ammo.shotgun = Min(s.player.maxAmmo.shotgun, @ + 10),
                      !.player.ammo.chaingun = Min(s.player.maxAmmo.chaingun, @ + 30),
                      !.currentFloor = nextFloor,
                      !.floorTheme = getFloorTheme(nextFloor),
                      !.isBossFloor = isBossFloor,
                      !.bossDefeated = FALSE,
                      !.worldMap = worldMap,
                      !.worldSize = nextSize]
             regular == generateRandomEnemies(s1, worldMap, g.enemies)
             s2 == [s1 EXCEPT !.nextEnemyId = regular.nextEnemyId]
             kept == SubSeq(regular.enemies, 1,
                            Min(Len(regular.enemies), 3 + nextFloor \div 10))
             s3 == [s2 EXCEPT !.enemies =
                       IF isBossFloor
                       THEN kept \o generateBossEnemy(s2, worldMap, nextFloor, g.boss)
                       ELSE regular.enemies,
                    !.pickups = <<>>]
         IN  [generateRandomPickups(s3, g.pickups) EXCEPT !.gameStatus = "playing"]
    ELSE s

\* progressToNextFloor; worldMap is the grid generateWorldMapWithTheme returned and
\* g holds the draws of the enemy, boss and pickup generation
progressToNextFloor(s, worldMap, g) ==
    IF Len(s.enemies) = 0 \/ (s.isBossFloor /\ s.bossDefeated)
    THEN LET nextFloor == s.currentFloor + 1
             isBossFloor == nextFloor % 5 = 0
             nextSize == FloorSize(nextFloor)
             s1 == [s EXCEPT
                      !.player.x = (nextSize * PosScale) \div 2,
                      !.player.y = (nextSize * PosScale) \div 2,
                      !.player.angle = 0,
                      !.player.health = Min(s.player.maxHealth, @ + 25),
                      !.player.ammo.pistol = Min(s.player.maxAmmo.pistol, @ + 20),
                      !.player.ammo.shotgun = Min(s.player.maxAmmo.shotgun, @ + 10),
                      !.player.ammo.chaingun = Min(s.player.maxAmmo.chaingun, @ + 30),
                      !.currentFloor = nextFloor,
                      !.floorTheme = getFloorTheme(nextFloor),
                      !.isBossFloor = isBossFloor,
                      !.bossDefeated = FALSE,
                      !.worldMap = worldMap,
                      !.worldSize = nextSize]
             regular == generateRandomEnemies(s1, worldMap, g.enemies)
             s2 == [s1 EXCEPT !.nextEnemyId = regular.nextEnemyId]
             kept == SubSeq(regular.enemies, 1,
                            Min(Len(regular.enemies), 3 + nextFloor \div 10))
             s3 == [s2 EXCEPT !.enemies =
                       IF isBossFloor
                       THEN kept \o generateBossEnemy(s2, worldMap, nextFloor, g.boss)
                       ELSE regular.enemies,
                    !.pickups = <<>>]
         IN  [generateRandomPickups(s3, g.pickups) EXCEPT !.gameStatus = "playing"]
    ELSE s

\* reset, given the grid the new state's generation returned
reset(worldMap) == createInitialState(worldMap)

----------------------------------------------------------------------------
(* GameStateManager: player movement and view *)

\* one movement component: cos or sin (times 1000) times moveSpeed 0.15 cells
PlayerStep(c) == (c * ((15 * PosScale) \div 100)) \div 1000

\* an updatePlayer that tests each axis from the old position on its own
updatePlayerEachAxis(s, in) ==
    IF s.gameStatus # "playing" \/ s.isPaused THEN s
    ELSE LET angle == s.player.angle
                        - (IF in.rotateLeft THEN 30 ELSE 0)
                        + (IF in.rotateRight THEN 30 ELSE 0)
             side == angle - PI \div 2
             newX == s.player.x
                        + (IF in.forward THEN PlayerStep(Cos(angle)) ELSE 0)
                        - (IF in.backward THEN PlayerStep(Cos(angle)) ELSE 0)
                        + (IF in.left THEN PlayerStep(Cos(side)) ELSE 0)
                        - (IF in.right THEN PlayerStep(Cos(side)) ELSE 0)
             newY == s.player.y
                        + (IF in.forward THEN PlayerStep(Sin(angle)) ELSE 0)
                        - (IF in.backward THEN PlayerStep(Sin(angle)) ELSE 0)
                        + (IF in.left THEN PlayerStep(Sin(side)) ELSE 0)
                        - (IF in.right THEN PlayerStep(Sin(side)) ELSE 0)
             x1 == IF Passable(s.worldMap, Floor(newX), Floor(s.player.y))
                   THEN newX ELSE s.player.x
             y1 == IF Passable(s.worldMap, Floor(s.player.x), Floor(newY))
                   THEN newY ELSE s.player.y
         IN  [s EXCEPT !.player.angle = angle, !.player.x = x1, !.player.y = y1]

\* updatePlayer(input)
updatePlayer(s, in) ==
    IF s.gameStatus # "playing" \/ s.isPaused THEN s
    ELSE LET angle == s.player.angle
                        - (IF in.rotateLeft THEN 30 ELSE 0)
                        + (IF in.rotateRight THEN 30 ELSE 0)
             side == angle - PI \div 2
             newX == s.player.x
                        + (IF in.forward THEN PlayerStep(Cos(angle)) ELSE 0)
                        - (IF in.backward THEN PlayerStep(Cos(angle)) ELSE 0)
                        + (IF in.left THEN PlayerStep(Cos(side)) ELSE 0)
                        - (IF in.right THEN PlayerStep(Cos(side)) ELSE 0)
             newY == s.player.y
                        + (IF in.forward THEN PlayerStep(Sin(angle)) ELSE 0)
                        - (IF in.backward THEN PlayerStep(Sin(angle)) ELSE 0)
                        + (IF in.left THEN PlayerStep(Sin(side)) ELSE 0)
                        - (IF in.right THEN PlayerStep(Sin(side)) ELSE 0)
             x1 == IF Passable(s.worldMap, Floor(newX), Floor(newY))
                   THEN newX ELSE s.player.x
             y1 == IF Passable(s.worldMap, Floor(x1), Floor(newY))
                   THEN newY ELSE s.player.y
         IN  [s EXCEPT !.player.angle = angle, !.player.x = x1, !.player.y = y1]

\* updateMouseLook(deltaX): rotationSpeed 0.005 rad per pixel
updateMouseLook(s, deltaX) ==
    IF s.gameStatus # "playing" \/ s.isPaused THEN s
    ELSE [s EXCEPT !.player.angle = @ + deltaX * 5]

----------------------------------------------------------------------------
(* GameEngine: shooting *)

\* angleDiff as handleShooting computes it
AngleDiff(a, b) ==
    LET angleDiff == Abs(a - b)
    IN  IF angleDiff > PI THEN TwoPi - angleDiff ELSE angleDiff

\* the three tests of the loop of handleShooting on one enemy; rayDistance is
\* hit.distance, the ray's distance along the firing angle
Eligible(s, enemy, rayDistance) ==
    LET distSq == DistSq(enemy.x, enemy.y, s.player.x, s.player.y)
        weaponRange == getWeaponRange(s) * PosScale
        enemyAngle == Atan2(enemy.y - s.player.y, enemy.x - s.player.x)
    IN  /\ ~(distSq > weaponRange * weaponRange)
        /\ ~(distSq > rayDistance * rayDistance)
        /\ AngleDiff(s.player.angle, enemyAngle) < getWeaponAccuracy(s)

\* an actualDamage without the falloff
ActualDamageNoFalloff(s, enemy) == getWeaponDamage(s)

\* actualDamage: Math.floor(weaponDamage * rangeFactor)
ActualDamage(s, enemy) ==
    LET enemyDistance == Sqrt(DistSq(enemy.x, enemy.y, s.player.x, s.player.y))
        weaponRange == getWeaponRange(s) * PosScale
        tenths == IF s.player.weapon = "shotgun"
                  THEN Max(3 * weaponRange, 10 * weaponRange - 7 * enemyDistance)
                  ELSE Max(8 * weaponRange, 10 * weaponRange - 2 * enemyDistance)
    IN  (getWeaponDamage(s) * tenths) \div (10 * weaponRange)

\* the index of the enemy the loop of handleShooting damages, 0 when it damages none
ShotTarget(s) ==
    LET hit == castRay(s.player.x, s.player.y, s.player.angle, s.worldMap)
        eligible == {i \in 1..Len(s.enemies) : Eligible(s, s.enemies[i], hit)}
    IN  IF eligible = {} THEN 0
        ELSE CHOOSE i \in eligible : \A j \in eligible : i <= j

\* handleShooting: the state afterwards, and whether damageEnemy scheduled the
\* 100 ms check of the floor
handleShooting(s, d) ==
    IF ~canShoot(s) THEN [s |-> s, scheduled |-> FALSE]
    ELSE LET s1 == shoot(s)
             i == ShotTarget(s1)
         IN  IF i = 0 THEN [s |-> s1, scheduled |-> FALSE]
             ELSE damageEnemy(s1, s1.enemies[i].id,
                              ActualDamage(s1, s1.enemies[i]), d)

----------------------------------------------------------------------------
(* The grids and the draws the game specification ranges over *)

\* draws of one generateRandomEnemies call: a spot six cells east of the spawn
\* point, and a spot too close to it
EnemyDraws(size) ==
    LET far == [x |-> Centre(size) + 6 * PosScale, y |-> Centre(size),
                enemyType |-> "grunt", maxHealth |-> 20, explorationCooldown |-> 60]
        close == [far EXCEPT !.x = Centre(size) + 2 * PosScale,
                             !.enemyType = "soldier", !.maxHealth = 30]
    IN  {<<>>, <<far>>, <<close, far>>}

\* draws of one spawnEnemyDrops call
DropDraws ==
    {[health |-> h, healthValue |-> 15, ammo |-> FALSE, ammoValue |-> 8,
      weapon |-> h, weaponType |-> "shotgun", offsetX |-> 0, offsetY |-> 0] :
        h \in BOOLEAN}

\* draws of one generateBossEnemy call: a spot ten cells west of the spawn
\* point, too close to it, then a spot seventeen cells west
BossDraws(size) ==
    {<<[x |-> Centre(size) - 10 * PosScale, y |-> Centre(size)],
       [x |-> Centre(size) - 17 * PosScale, y |-> Centre(size)]>>}

\* draws of one generateRandomPickups call
PickupDraws(size) ==
    {<<>>, <<[x |-> Centre(size) + 4 * PosScale, y |-> Centre(size),
              type |-> "health", value |-> 25, weaponType |-> None,
              offsetX |-> 0, offsetY |-> 0]>>}

\* draws of one updateEnemies call
Rnd ==
    {[patrol |-> p, patrolDx |-> PosScale, patrolDy |-> 0, dir |-> d,
      explorationDistance |-> 3, wait180 |-> 0, wait240 |-> 0, wait360 |-> 0,
      spots |-> <<[dx |-> 0, dy |-> 3 * PosScale]>>, roll1 |-> TRUE, roll2 |-> TRUE] :
        p \in BOOLEAN, d \in {1}}

NoMove == [forward |-> FALSE, backward |-> FALSE, left |-> FALSE, right |-> FALSE,
           rotateLeft |-> FALSE, rotateRight |-> FALSE]

\* what getMovementInput can return
Moves == {NoMove, [NoMove EXCEPT !.forward = TRUE, !.rotateRight = TRUE]}

\* what consumeMouseMovement can return as deltaX, in pixels
MouseDeltas == {0, 1885}

----------------------------------------------------------------------------
(* The game specification: GameStateManager driven by GameEngine *)

NoTimers == [check |-> 0, advance |-> 0, staleCheck |-> 0, staleAdvance |-> 0]

\* InputSystem after construction, with the model's bookkeeping
NoInput == [mouseLocked |-> FALSE, pausePressed |-> FALSE, weaponSwitchPressed |-> <<>>,
            pointerLockElement |-> FALSE, lockEvents |-> 0,
            clearPause |-> 0, clearWeapon |-> 0, escapes |-> 0, toggles |-> 0]

\* the value of a variable in the specifications that leave it out
Unused == [stage |-> "unused"]

(* GameStateManager: getState, subscribe, notifyListeners.  list is          *)
(* this.listeners.  The other fields are bookkeeping: notified, the         *)
(* listeners the last notifyListeners() invoked, in order, emptied when the *)
(* list changes; handles, the listeners subscribe() has returned a handle   *)
(* for; off, the listeners whose handle has been called and that have not   *)
(* been subscribed since; snapshot, an object getState() returned to a      *)
(* reader that kept it.                                                     *)

\* the listener functions the readers pass to subscribe
ListenerIds == {"a", "b"}

\* the fields of GameState that hold objects
ObjectFields == {"player", "enemies", "pickups", "worldMap"}

NoSnapshot == [taken |-> FALSE]

NoListeners == [list |-> <<>>, notified |-> <<>>, handles |-> {}, off |-> {},
                snapshot |-> NoSnapshot]

\* getState: { ...this.state }, a new object with the values of the fields of s;
\* where the value is an object, it is the very object the store holds (shared)
getState(s) == [taken |-> TRUE, copy |-> s, shared |-> ObjectFields]

\* what a reader finds in a snapshot while the store's state is s: the copied
\* values, and the store's own objects where the snapshot shares them
ReadThrough(snapshot, s) ==
    [f \in DOMAIN snapshot.copy |->
        IF f \in snapshot.shared THEN s[f] ELSE snapshot.copy[f]]

\* the store, in state s, assigns new objects to the given fields: the snapshot
\* keeps the objects it had, which the store no longer holds
Detach(snapshot, s, replaced) ==
    IF snapshot.taken
    THEN [snapshot EXCEPT
             !.copy = [f \in DOMAIN @ |->
                          IF f \in snapshot.shared \cap replaced THEN s[f] ELSE @[f]],
             !.shared = @ \ replaced]
    ELSE snapshot

\* subscribe(listener): this.listeners.push(listener)
subscribe(ls, listener) ==
    [ls EXCEPT !.list = Append(@, listener),
               !.handles = @ \cup {listener},
               !.off = @ \ {listener},
               !.notified = <<>>]

\* this.listeners.indexOf(listener), 0 for -1
IndexOf(list, listener) ==
    IF \E i \in 1..Len(list) : list[i] = listener
    THEN CHOOSE i \in 1..Len(list) :
            list[i] = listener /\ \A j \in 1..(i - 1) : list[j] # listener
    ELSE 0

\* the handle subscribe(listener) returned: splice(index, 1) if index > -1
unsubscribe(ls, listener) ==
    LET index == IndexOf(ls.list, listener)
    IN  [ls EXCEPT !.list = IF index > 0
                             THEN SubSeq(@, 1, index - 1) \o SubSeq(@, index + 1, Len(@))
                             ELSE @,
                   !.off = @ \cup {listener},
                   !.notified = <<>>]

\* notifyListeners: this.listeners.forEach(listener => listener(this.getState()))
notifyListeners(ls) == [ls EXCEPT !.notified = ls.list]

\* what a method of the store does to the listeners and the readers: pre is the
\* state it started in, replaced the fields it assigned new objects to, and
\* notifies whether it called notifyListeners
Observed(ls, pre, replaced, notifies) ==
    IF ls = Unused THEN ls
    ELSE LET d == [ls EXCEPT !.snapshot = Detach(@, pre, replaced)]
         IN  IF notifies THEN notifyListeners(d) ELSE d

\* pause, resume, togglePause: whether they call notifyListeners
pauseNotifies(s) == s.gameStatus = "playing"
resumeNotifies(s) == s.gameStatus = "paused"
togglePauseNotifies(s) == IF s.isPaused THEN resumeNotifies(s) ELSE pauseNotifies(s)

\* progressToNextFloor: whether it goes on to the next floor; it then assigns a
\* new grid, enemy array and pickup array and calls notifyListeners
canProgress(s) == Len(s.enemies) = 0 \/ (s.isBossFloor /\ s.bossDefeated)

\* GameEngine after construction; animationFrameId tells whether a frame is
\* requested from the host; frame, steps, unpaused and shots are
\* bookkeeping: the time of the last gameLoop call, the number of fixed steps it
\* attempted, the wall-clock time that has passed unpaused since then, and the
\* number of shots fired; calls and call record the direct calls of
\* GameStateManager's public methods: their number, and the last one with what
\* it returned and whether it notified the listeners; advanced is the number of
\* floor advances since an enemy last died or the game was reset; generated
\* tells whether the enemies of the floor in play have been generated
NoCall == [op |-> "none", returned |-> FALSE, notified |-> FALSE]

NoEngine == [isRunning |-> FALSE, animationFrameId |-> FALSE, frame |-> 0, steps |-> 0,
             unpaused |-> 0, shots |-> 0, calls |-> 0, call |-> NoCall,
             advanced |-> 0, generated |-> FALSE]

\* a state the game reaches in play on the first floor: the first tick came at
\* time 1, the player stands on the spawn point facing east with the given health
\* and two rounds left; a wounded grunt chases from two cells east, a captain
\* attacks from one cell east, a soldier idles five cells east; a health pickup
\* may lie half a cell away
MidGame(worldMap, health, withPickup) ==
    LET s == createInitialState(worldMap)
        c == Centre(worldMap.size)
        grunt == [NewEnemy(1, c + 2 * PosScale, c, "grunt", 20, "chasing", 100)
                    EXCEPT !.health = 10, !.lastPlayerX = c, !.lastPlayerY = c]
        captain == [NewEnemy(2, c + PosScale, c, "captain", 45, "attacking", 100)
                    EXCEPT !.lastPlayerX = c, !.lastPlayerY = c]
        soldier == NewEnemy(3, c + 5 * PosScale, c, "soldier", 30, "idle", 100)
    IN  [s EXCEPT !.player.health = health,
                  !.player.ammo.pistol = 2,
                  !.enemies = <<grunt, captain, soldier>>,
                  !.nextEnemyId = 4,
                  !.lastUpdateTime = 1,
                  !.nextPickupId = IF withPickup THEN 2 ELSE 1,
                  !.pickups = IF withPickup
                              THEN <<[id |-> 1, x |-> c, y |-> c + PosScale \div 2,
                                      type |-> "health", value |-> 25,
                                      spawnTime |-> 1, weaponType |-> None]>>
                              ELSE <<>>]

\* pickups lying within reach of the spawn point: none, a box of ammunition, a
\* shotgun, or a shotgun, a box of ammunition and a chaingun
PickupLots(c) ==
    LET lying(id, type, value, weaponType) ==
            [id |-> id, x |-> c, y |-> c + PosScale \div 2, type |-> type,
             value |-> value, spawnTime |-> 1, weaponType |-> weaponType]
    IN  {<<>>,
         <<lying(1, "ammo", 8, None)>>,
         <<lying(1, "weapon", 12, "shotgun")>>,
         <<lying(1, "weapon", 30, "chaingun"), lying(2, "ammo", 25, None),
           lying(3, "weapon", 12, "shotgun")>>}

\* a state the game reaches in play on the first floor: the first tick came at
\* time 1, the player stands on the spawn point with the given rounds for the
\* pistol and the given pickups within reach; either every enemy is dead, or the
\* player has 10 health left and a captain attacks from one cell east
Armed(worldMap, rounds, lots, withCaptain) ==
    LET s == MidGame(worldMap, IF withCaptain THEN 10 ELSE 100, FALSE)
    IN  [s EXCEPT !.player.ammo.pistol = rounds,
                  !.enemies = IF withCaptain THEN <<s.enemies[2]>> ELSE <<>>,
                  !.pickups = lots,
                  !.nextPickupId = Len(lots) + 1]

\* a state the game reaches in play on the first floor: as MidGame, when the
\* wounded grunt is the last enemy left
LastEnemy(worldMap) ==
    LET s == MidGame(worldMap, 100, FALSE)
    IN  [s EXCEPT !.enemies = <<s.enemies[1]>>]

\* a state the game reaches in play on the first floor: as MidGame, when the
\* wounded grunt is the last enemy left and attacks from one cell east
Duel(worldMap, health, withPickup) ==
    LET s == MidGame(worldMap, health, withPickup)
    IN  [s EXCEPT !.enemies = <<[s.enemies[1] EXCEPT
                                    !.x = Centre(worldMap.size) + PosScale,
                                    !.state = "attacking"]>>]

Playing == [NoEngine EXCEPT !.isRunning = TRUE, !.animationFrameId = TRUE, !.frame = 1,
                            !.generated = TRUE]
Locked == [NoInput EXCEPT !.mouseLocked = TRUE, !.pointerLockElement = TRUE]

\* combat: after construction, or in play among three enemies
Init ==
    /\ now = 1
    /\ listeners = Unused
    /\ timers = NoTimers
    /\ gen = Unused
    /\ cad = Unused
    /\ \/ /\ state \in {createInitialState(m) : m \in GeneratedMaps(worldSize)}
          /\ engine = NoEngine
          /\ input = NoInput
       \/ /\ state \in {MidGame(m, h, p) : m \in GeneratedMaps(worldSize),
                                          h \in {100, 10}, p \in BOOLEAN}
          /\ engine = Playing
          /\ input = Locked

\* the floor's end: in play, facing the last enemy
InitFloor ==
    /\ now = 1
    /\ listeners = Unused
    /\ timers = NoTimers
    /\ gen = Unused
    /\ cad = Unused
    /\ state \in {LastEnemy(m) : m \in GeneratedMaps(worldSize)}
    /\ engine = Playing
    /\ input = Locked

\* the clock: after construction
InitClock ==
    /\ now = 1
    /\ listeners = Unused
    /\ timers = NoTimers
    /\ gen = Unused
    /\ cad = Unused
    /\ state \in {createInitialState(m) : m \in GeneratedMaps(worldSize)}
    /\ engine = NoEngine
    /\ input = NoInput

\* InputSystem.exitPointerLock: the browser drops the lock and queues a
\* pointerlockchange event
exitPointerLock(inp) ==
    IF inp.pointerLockElement
    THEN [inp EXCEPT !.pointerLockElement = FALSE, !.lockEvents = @ + 1]
    ELSE inp

\* GameEngine.handlePauseToggle
handlePauseToggle(s, inp) ==
    IF s.gameStatus = "playing" \/ s.gameStatus = "paused"
    THEN [s |-> togglePause(s),
          inp |-> [(IF s.gameStatus = "playing" THEN exitPointerLock(inp) ELSE inp)
                      EXCEPT !.toggles = @ + 1],
          notifies |-> togglePauseNotifies(s)]
    ELSE [s |-> s, inp |-> inp, notifies |-> FALSE]

\* GameEngine.handleWeaponSwitch
handleWeaponSwitch(s, weapon) == IF s.isPaused THEN s ELSE switchWeapon(s, weapon)

\* the listener setupEventListeners subscribes, called with a copy of the input state
Listener(s, inp) ==
    LET p == IF inp.pausePressed THEN handlePauseToggle(s, inp)
             ELSE [s |-> s, inp |-> inp, notifies |-> FALSE]
    IN  IF inp.weaponSwitchPressed # <<>>
        THEN [p EXCEPT !.s = handleWeaponSwitch(@, inp.weaponSwitchPressed[1]),
                       !.notifies = \/ @
                                    \/ /\ ~p.s.isPaused
                                       /\ canSwitchWeapon(p.s, inp.weaponSwitchPressed[1])]
        ELSE p

\* callbacks pending at a reset or a stop, from then on counted apart
Outdated(t) == [check |-> 0, advance |-> 0,
                staleCheck |-> t.staleCheck + t.check,
                staleAdvance |-> t.staleAdvance + t.advance]

\* wall-clock time passes, up to a limit
Tick(limit) ==
    /\ now < limit
    /\ now' = now + 1
    /\ engine' = [engine EXCEPT !.unpaused = IF state.isPaused THEN @ ELSE @ + 1]
    /\ UNCHANGED <<state, timers, input, gen, cad, listeners>>

TimePasses == Tick(MaxTime)
ClockPasses == Tick(MaxClock)

\* the body of GameEngine.gameLoop(currentTime): the state afterwards and the
\* number of fixed steps attempted; mv is the movement input, deltaX the mouse
\* movement consumed, draws and r the random draws
Frame(s, currentTime, draws, mv, deltaX, r) ==
    LET u == updateWithDeltaTime(s, currentTime, draws)
        gameState == u.s
        s1 == updatePlayer(gameState, mv)
        s2 == IF deltaX # 0 THEN updateMouseLook(s1, deltaX) ELSE s1
    IN  [s |-> IF gameState.isPaused THEN gameState ELSE updateEnemies(s2, r),
         n |-> u.n,
         notifies |-> /\ ~s.isPaused
                      /\ s.lastUpdateTime # 0 \/ gameState.gameStatus = "playing",
         replaced |-> IF ~s.isPaused /\ s.lastUpdateTime = 0 /\ Len(s.enemies) = 0
                      THEN {"enemies"} ELSE {}]

\* GameEngine.gameLoop(currentTime), called by the host with the current time;
\* the movement input, the mouse movement and the draws of the enemy update come
\* from the given sets
gameLoop(moves, deltas, rnds) ==
    /\ engine.animationFrameId
    /\ engine.isRunning
    /\ engine.frame < now
    /\ \E draws \in IF state.lastUpdateTime = 0 /\ ~state.isPaused
                    THEN EnemyDraws(state.worldSize) ELSE {<<>>} :
       \E mv \in moves, dx \in IF input.mouseLocked THEN deltas ELSE {0}, r \in rnds :
          LET f == Frame(state, now, draws, mv, dx, r)
          IN  /\ state' = f.s
              /\ engine' = [engine EXCEPT !.frame = now, !.steps = f.n, !.unpaused = 0,
                                          !.generated = @ \/ f.replaced # {}]
              /\ listeners' = Observed(listeners, state, f.replaced, f.notifies)
    /\ UNCHANGED <<timers, now, input, gen, cad>>

Quiet == CHOOSE r \in Rnd : ~r.patrol

GameLoop == gameLoop(Moves, MouseDeltas, Rnd)

\* draws of one updateEnemies call on the boss floor: the minion's spot three
\* cells south of the boss, or five cells east of it
BossRnd == {Quiet, [Quiet EXCEPT !.spots = <<[dx |-> 5 * PosScale, dy |-> 0]>>]}

\* mouse movement on the boss floor: none, or half a turn (628 pixels)
TurnDeltas == {0, 628}

BossLoop == gameLoop({NoMove}, TurnDeltas, BossRnd)
QuietLoop == gameLoop({NoMove}, {0}, {Quiet})

\* the collaborator calls of gameLoop that may fail: playSound (from
\* detectGameEvents and handleFootsteps), updateGameStateForMusic, render
Faults == {"sound", "music", "render"}

\* GameEngine.gameLoop(currentTime) when a collaborator fails in it: playSound
\* catches what it raises and the tick goes on; gameLoop catches nothing, so
\* what updateGameStateForMusic (called unless paused) or render raises ends
\* the tick there, before requestAnimationFrame
GameLoopFault ==
    /\ engine.animationFrameId
    /\ engine.isRunning
    /\ engine.frame < now
    /\ \E draws \in IF state.lastUpdateTime = 0 /\ ~state.isPaused
                    THEN EnemyDraws(state.worldSize) ELSE {<<>>} :
       \E fault \in Faults :
          LET u == updateWithDeltaTime(state, now, draws)
              f == Frame(state, now, draws, NoMove, 0, Quiet)
              atMusic == fault = "music" /\ ~u.s.isPaused
              thrown == atMusic \/ fault = "render"
          IN  /\ state' = IF atMusic THEN u.s ELSE f.s
              /\ engine' = [engine EXCEPT !.frame = now, !.steps = f.n, !.unpaused = 0,
                                          !.animationFrameId = ~thrown,
                                          !.generated = @ \/ f.replaced # {}]
              /\ listeners' = Observed(listeners, state, f.replaced,
                                        IF atMusic
                                        THEN ~state.isPaused /\ state.lastUpdateTime # 0
                                        ELSE f.notifies)
    /\ UNCHANGED <<timers, now, input, gen, cad>>

\* GameEngine.handleMouseDown, for the left button
MouseDown ==
    /\ engine.shots < MaxShots
    /\ timers.check < MaxPending
    /\ input.lockEvents < MaxPending
    /\ IF state.isPaused
       THEN UNCHANGED <<state, timers, engine, input, listeners>>
       ELSE IF ~input.mouseLocked
       THEN /\ input' = IF input.pointerLockElement THEN input
                        ELSE [input EXCEPT !.pointerLockElement = TRUE,
                                           !.lockEvents = @ + 1]
            /\ UNCHANGED <<state, timers, engine, listeners>>
       ELSE \E d \in DropDraws :
               LET h == handleShooting(state, d)
               IN  /\ state' = h.s
                   /\ timers' = [timers EXCEPT
                                    !.check = IF h.scheduled THEN @ + 1 ELSE @]
                   /\ engine' = [engine EXCEPT
                                    !.shots = IF canShoot(state) THEN @ + 1 ELSE @,
                                    !.advanced = IF h.scheduled THEN 0 ELSE @]
                   /\ listeners' = Observed(listeners, state, {}, shootNotifies(state))
                   /\ UNCHANGED input
    /\ UNCHANGED <<now, gen, cad>>

\* InputSystem.handlePointerLockChange
PointerLockChange ==
    /\ input.lockEvents > 0
    /\ LET inp == [input EXCEPT !.lockEvents = @ - 1,
                                !.mouseLocked = input.pointerLockElement]
           l == Listener(state, inp)
       IN  /\ l.inp.lockEvents <= MaxPending
           /\ l.inp.toggles <= 2 * MaxEscapes
           /\ state' = l.s
           /\ input' = l.inp
           /\ listeners' = Observed(listeners, state, {}, l.notifies)
    /\ UNCHANGED <<timers, now, engine, gen, cad>>

\* GameEngine.pause
EnginePause ==
    /\ input.lockEvents < MaxPending
    /\ state' = pause(state)
    /\ input' = exitPointerLock(input)
    /\ listeners' = Observed(listeners, state, {}, pauseNotifies(state))
    /\ UNCHANGED <<timers, now, engine, gen, cad>>

\* GameEngine.resume
EngineResume ==
    /\ state' = resume(state)
    /\ listeners' = Observed(listeners, state, {}, resumeNotifies(state))
    /\ UNCHANGED <<timers, now, engine, input, gen, cad>>

\* GameEngine.start
EngineStart ==
    /\ ~engine.isRunning
    /\ engine' = [engine EXCEPT !.isRunning = TRUE, !.animationFrameId = TRUE]
    /\ UNCHANGED <<state, timers, now, input, gen, cad, listeners>>

\* GameEngine.stop
EngineStop ==
    /\ engine.isRunning
    /\ engine' = [engine EXCEPT !.isRunning = FALSE, !.animationFrameId = FALSE]
    /\ timers' = Outdated(timers)
    /\ UNCHANGED <<state, now, input, gen, cad, listeners>>

\* GameEngine.reset
EngineReset ==
    /\ input.lockEvents < MaxPending
    /\ \E m \in GeneratedMaps(worldSize) : state' = reset(m)
    /\ input' = exitPointerLock(input)
    /\ timers' = Outdated(timers)
    /\ engine' = [engine EXCEPT !.advanced = 0, !.generated = FALSE]
    /\ listeners' = Observed(listeners, state, ObjectFields, TRUE)
    /\ UNCHANGED <<now, gen, cad>>

\* the floors the model lets the game leave: the first floors, the floor before
\* the first boss floor, and the first boss floor
CanAdvanceFrom(floor) == floor < MaxFloor \/ floor \in {BossFloor - 1, BossFloor}

\* GameEngine.progressToNextLevel, when the model lets the game leave the floor
progressToNextLevel(allowed) ==
    /\ allowed
    /\ input.lockEvents < MaxPending
    /\ \E m \in GeneratedMaps(FloorSize(state.currentFloor + 1)) :
       \E e \in EnemyDraws(m.size), b \in BossDraws(m.size), p \in PickupDraws(m.size) :
          state' = progressToNextFloor(state, m,
                       [enemies |-> e, boss |-> b, pickups |-> p])
    /\ input' = exitPointerLock(input)
    /\ engine' = [engine EXCEPT !.advanced = IF canProgress(state) THEN @ + 1 ELSE @,
                                !.generated = @ \/ canProgress(state)]
    /\ listeners' = Observed(listeners, state,
                              IF canProgress(state)
                              THEN {"enemies", "pickups", "worldMap"} ELSE {},
                              canProgress(state))
    /\ UNCHANGED <<timers, now, gen, cad>>

ProgressToNextLevel == progressToNextLevel(CanAdvanceFrom(state.currentFloor))

\* GameStateManager.shoot(), called directly
ShootCall ==
    /\ engine.calls < MaxCalls
    /\ state' = shoot(state)
    /\ engine' = [engine EXCEPT !.calls = @ + 1,
                                !.call = [op |-> "shoot",
                                          returned |-> canShoot(state),
                                          notified |-> shootNotifies(state)]]
    /\ listeners' = Observed(listeners, state, {}, shootNotifies(state))
    /\ UNCHANGED <<timers, now, input, gen, cad>>

\* GameStateManager.switchWeapon(weapon), called directly
SwitchWeaponCall ==
    /\ engine.calls < MaxCalls
    /\ \E weapon \in Weapons :
          /\ state' = switchWeapon(state, weapon)
          /\ engine' = [engine EXCEPT
                           !.calls = @ + 1,
                           !.call = [op |-> weapon,
                                     returned |-> canSwitchWeapon(state, weapon),
                                     notified |-> canSwitchWeapon(state, weapon)]]
          /\ listeners' = Observed(listeners, state, {},
                                    canSwitchWeapon(state, weapon))
    /\ UNCHANGED <<timers, now, input, gen, cad>>

\* the callback damageEnemy scheduled fires: checkFloorProgression
CheckFires ==
    /\ timers.advance < MaxPending
    /\ \E stale \in BOOLEAN :
          /\ IF stale THEN timers.staleCheck > 0 ELSE timers.check > 0
          /\ LET c == checkFloorProgression(state)
                 t == IF stale THEN [timers EXCEPT !.staleCheck = @ - 1]
                      ELSE [timers EXCEPT !.check = @ - 1]
             IN  /\ state' = c.s
                 /\ timers' = [t EXCEPT !.advance = IF c.scheduled THEN @ + 1 ELSE @]
    /\ UNCHANGED <<now, engine, input, gen, cad, listeners>>

\* the callback checkFloorProgression scheduled fires: progressToNextFloor, onto
\* one of the first floors or onto the first boss floor
advanceFires(allowed) ==
    /\ allowed
    /\ \E stale \in BOOLEAN :
          /\ IF stale THEN timers.staleAdvance > 0 ELSE timers.advance > 0
          /\ timers' = IF stale THEN [timers EXCEPT !.staleAdvance = @ - 1]
                       ELSE [timers EXCEPT !.advance = @ - 1]
    /\ \E m \in GeneratedMaps(FloorSize(state.currentFloor + 1)) :
       \E e \in EnemyDraws(m.size), b \in BossDraws(m.size), p \in PickupDraws(m.size) :
          state' = progressToNextFloor(state, m,
                       [enemies |-> e, boss |-> b, pickups |-> p])
    /\ engine' = [engine EXCEPT !.advanced = IF canProgress(state) THEN @ + 1 ELSE @,
                                !.generated = @ \/ canProgress(state)]
    /\ listeners' = Observed(listeners, state,
                              IF canProgress(state)
                              THEN {"enemies", "pickups", "worldMap"} ELSE {},
                              canProgress(state))
    /\ UNCHANGED <<now, input, gen, cad>>

AdvanceFires == advanceFires(CanAdvanceFrom(state.currentFloor))

Next ==
    \/ TimePasses
    \/ GameLoop
    \/ MouseDown
    \/ PointerLockChange
    \/ EngineStart
    \/ CheckFires

Spec == Init /\ [][Next]_vars

NextFloor ==
    \/ TimePasses
    \/ QuietLoop
    \/ MouseDown
    \/ PointerLockChange
    \/ EngineStart
    \/ EngineStop
    \/ EngineReset
    \/ ProgressToNextLevel
    \/ CheckFires
    \/ AdvanceFires

SpecFloor == InitFloor /\ [][NextFloor]_vars

\* the floor's end without a reset; the host runs every callback scheduled with
\* setTimeout in the end, whether or not the engine was stopped
NextAdvance ==
    \/ TimePasses
    \/ QuietLoop
    \/ MouseDown
    \/ PointerLockChange
    \/ EngineStart
    \/ EngineStop
    \/ ProgressToNextLevel
    \/ CheckFires
    \/ AdvanceFires

SpecAdvance ==
    /\ InitFloor
    /\ [][NextAdvance]_vars
    /\ WF_vars(CheckFires)
    /\ WF_vars(AdvanceFires)

\* one floor's end followed closely: the Next Level button of the victory screen
\* is clicked at most once after a clear, and the game may leave the floor it
\* arrives on
NextLevelOnce ==
    progressToNextLevel(engine.advanced = 0 /\ state.currentFloor <= MaxFloor)

LateAdvanceFires == advanceFires(state.currentFloor <= MaxFloor)

NextTwice ==
    \/ TimePasses
    \/ QuietLoop
    \/ MouseDown
    \/ NextLevelOnce
    \/ CheckFires
    \/ LateAdvanceFires

SpecTwice == InitFloor /\ [][NextTwice]_vars

NextClock ==
    \/ ClockPasses
    \/ QuietLoop
    \/ EngineStart
    \/ EnginePause
    \/ EngineResume
    \/ EngineReset

SpecClock == InitClock /\ [][NextClock]_vars

\* a state the game reaches in play on the first floor: the first tick came at
\* time 1, the player stands on the spawn point facing west with the given weapon
\* and ten rounds for it, and a captain idles the given number of cells west
Ranged(worldMap, weapon, cells) ==
    LET s == createInitialState(worldMap)
        c == Centre(worldMap.size)
    IN  [s EXCEPT !.player.angle = 628 * 5,
                  !.player.weapon = weapon,
                  !.player.availableWeapons = {"pistol", weapon},
                  !.player.ammo[weapon] = 10,
                  !.enemies = <<NewEnemy(1, c - cells * PosScale, c, "captain", 45,
                                         "idle", 100)>>,
                  !.nextEnemyId = 2,
                  !.lastUpdateTime = 1]

\* the firing range: in play, facing a captain at one of several distances
InitRange ==
    /\ now = 1
    /\ listeners = Unused
    /\ timers = NoTimers
    /\ gen = Unused
    /\ cad = Unused
    /\ state \in {Ranged(m, weapon, cells) :
                      m \in GeneratedMaps(worldSize), weapon \in Weapons,
                      cells \in {1, 4, 8, 10, 12, 15}}
    /\ engine = Playing
    /\ input = Locked

NextRange ==
    \/ TimePasses
    \/ QuietLoop
    \/ MouseDown
    \/ SwitchWeaponCall

SpecRange == InitRange /\ [][NextRange]_vars

\* a reader calls subscribe(listener)
Subscribe ==
    /\ Len(listeners.list) < MaxListeners
    /\ \E listener \in ListenerIds : listeners' = subscribe(listeners, listener)
    /\ UNCHANGED <<state, timers, now, engine, input, gen, cad>>

\* a reader calls a handle subscribe(listener) returned
Unsubscribe ==
    /\ \E listener \in listeners.handles : listeners' = unsubscribe(listeners, listener)
    /\ UNCHANGED <<state, timers, now, engine, input, gen, cad>>

\* a reader calls getState() and keeps what it returns
GetStateCall ==
    /\ ~listeners.snapshot.taken
    /\ listeners' = [listeners EXCEPT !.snapshot = getState(state)]
    /\ UNCHANGED <<state, timers, now, engine, input, gen, cad>>

\* the store and its readers: in play, facing a captain eight cells west, no
\* listener subscribed yet
InitStore ==
    /\ now = 1
    /\ timers = NoTimers
    /\ gen = Unused
    /\ cad = Unused
    /\ listeners = NoListeners
    /\ state \in {Ranged(m, "shotgun", 8) : m \in GeneratedMaps(worldSize)}
    /\ engine = Playing
    /\ input = Locked

NextStore ==
    \/ Subscribe
    \/ Unsubscribe
    \/ GetStateCall
    \/ ShootCall
    \/ EnginePause
    \/ EngineResume
    \/ EngineReset

SpecStore == InitStore /\ [][NextStore]_vars

\* the host's ticks with collaborators that may fail: in play, facing the last
\* enemy
InitFault ==
    /\ now = 1
    /\ listeners = Unused
    /\ timers = NoTimers
    /\ gen = Unused
    /\ cad = Unused
    /\ state \in {LastEnemy(m) : m \in GeneratedMaps(worldSize)}
    /\ engine = Playing
    /\ input = Locked

NextFault ==
    \/ ClockPasses
    \/ QuietLoop
    \/ GameLoopFault
    \/ EngineStop
    \/ EngineStart
    \/ EnginePause
    \/ EngineResume

SpecFault == InitFault /\ [][NextFault]_vars

\* the pickup sweep: in play with a captain idling ten cells west, pickups
\* within reach, and either no round for the shotgun or the shotgun in the
\* arsenal with nearly all its rounds
InitSweep ==
    /\ now = 1
    /\ listeners = Unused
    /\ timers = NoTimers
    /\ gen = Unused
    /\ cad = Unused
    /\ state \in {[Ranged(m, weapon, 10) EXCEPT
                       !.pickups = lots,
                       !.nextPickupId = Len(lots) + 1,
                       !.player.ammo.shotgun = rounds,
                       !.player.availableWeapons =
                           IF rounds > 0 THEN @ \cup {"shotgun"} ELSE @] :
                      m \in GeneratedMaps(worldSize), weapon \in Weapons,
                      lots \in PickupLots(Centre(worldSize)), rounds \in {0, 45}}
    /\ engine = Playing
    /\ input = Locked

NextSweep ==
    \/ TimePasses
    \/ QuietLoop
    \/ EnginePause
    \/ EngineResume

SpecSweep == InitSweep /\ [][NextSweep]_vars

\* a state the game reaches in play: the fourth floor with its last enemy killed
\* and the floor check passed, the floor advance pending
FloorCleared(worldMap) ==
    [createInitialState(worldMap) EXCEPT
        !.currentFloor = BossFloor - 1,
        !.floorTheme = getFloorTheme(BossFloor - 1),
        !.nextEnemyId = 13,
        !.lastUpdateTime = 1]

\* a state the game reaches in play on the first boss floor: the boss has spawned
\* all its minions and passed all its phases, the minions are dead, and the boss
\* chases from two cells east of the player with 10 health left
BossLate(worldMap) ==
    LET c == Centre(worldMap.size)
        s == progressToNextFloor(FloorCleared(worldMap), worldMap,
                 [enemies |-> <<>>, boss |-> <<[x |-> c + 2 * PosScale, y |-> c - 17 * PosScale]>>,
                  pickups |-> <<>>])
        boss == s.enemies[1]
    IN  [s EXCEPT !.enemies = <<[boss EXCEPT !.x = c + 2 * PosScale, !.y = c,
                                             !.health = 10, !.state = "chasing",
                                             !.lastPlayerX = c, !.lastPlayerY = c,
                                             !.spawnsRemaining = 0,
                                             !.spawnCooldown = 120,
                                             !.currentPhase = Len(boss.phaseTransitions)]>>,
                  !.nextEnemyId = s.nextEnemyId + boss.spawnsRemaining]

\* a state the game reaches in play on the first boss floor: as BossLate, but the
\* boss has 200 health left and attacks from one cell east of the player
BossMelee(worldMap) ==
    LET s == BossLate(worldMap)
    IN  [s EXCEPT !.enemies[1].x = s.player.x + PosScale,
                  !.enemies[1].health = 200,
                  !.enemies[1].state = "attacking"]

\* the boss floor: in play on the cleared floor before it with the floor advance
\* pending, or late in the fight with the boss, the boss chasing or attacking
InitBoss ==
    /\ now = 1
    /\ listeners = Unused
    /\ gen = Unused
    /\ cad = Unused
    /\ \/ /\ state \in {[FloorCleared(m) EXCEPT !.player.health = h] :
                            m \in GeneratedMaps(FloorSize(BossFloor - 1)),
                            h \in {100, 60}}
          /\ timers = [NoTimers EXCEPT !.advance = 1]
       \/ /\ state \in {BossLate(m) : m \in GeneratedMaps(FloorSize(BossFloor))}
                         \cup {BossMelee(m) : m \in GeneratedMaps(FloorSize(BossFloor))}
          /\ timers = NoTimers
    /\ engine = Playing
    /\ input = Locked

NextBoss ==
    \/ TimePasses
    \/ BossLoop
    \/ MouseDown
    \/ ProgressToNextLevel
    \/ CheckFires
    \/ AdvanceFires

SpecBoss == InitBoss /\ [][NextBoss]_vars

\* the arsenal: in play within reach of pickups, with one round or nearly all
\* rounds for the pistol
InitArms ==
    /\ now = 1
    /\ listeners = Unused
    /\ timers = NoTimers
    /\ gen = Unused
    /\ cad = Unused
    /\ state \in {Armed(m, rounds, lots, c) :
                      m \in GeneratedMaps(worldSize), rounds \in {1, 195},
                      lots \in PickupLots(Centre(worldSize)), c \in BOOLEAN}
    /\ engine = Playing
    /\ input = Locked

NextArms ==
    \/ TimePasses
    \/ QuietLoop
    \/ ShootCall
    \/ SwitchWeaponCall
    \/ EnginePause
    \/ EngineResume
    \/ EngineReset
    \/ ProgressToNextLevel

SpecArms == InitArms /\ [][NextArms]_vars

----------------------------------------------------------------------------
(* The generator specification: generateWorldMapWithTheme, stage by stage,  *)
(* on the grid of the first floor                                           *)

InitGen ==
    /\ state = Unused
    /\ timers = Unused
    /\ now = 0
    /\ listeners = Unused
    /\ engine = Unused
    /\ input = Unused
    /\ cad = Unused
    /\ gen = [stage |-> "border", map |-> BorderOnly(worldSize)]

\* generateRooms(map, size)
GenerateRooms ==
    /\ gen.stage = "border"
    /\ \E drawn \in RoomDraws, corridors \in CorridorDraws :
          gen' = [stage |-> "rooms", map |-> generateRooms(gen.map, drawn, corridors)]
    /\ UNCHANGED <<state, timers, now, engine, input, cad, listeners>>

\* generateMaze(map, size)
GenerateMaze ==
    /\ gen.stage = "rooms"
    /\ \E corridors \in CorridorDraws :
          gen' = [stage |-> "maze", map |-> generateMaze(gen.map, corridors)]
    /\ UNCHANGED <<state, timers, now, engine, input, cad, listeners>>

\* generatePillars(map, size)
GeneratePillars ==
    /\ gen.stage = "maze"
    /\ \E pillars \in PillarDraws(gen.map.size) :
          gen' = [stage |-> "pillars", map |-> generatePillars(gen.map, pillars, 1)]
    /\ UNCHANGED <<state, timers, now, engine, input, cad, listeners>>

\* generateSpecialRooms(map, size)
GenerateSpecialRooms ==
    /\ gen.stage = "pillars"
    /\ \E specials \in SpecialDraws :
          gen' = [stage |-> "special",
                  map |-> generateSpecialRooms(gen.map, specials, 1)]
    /\ UNCHANGED <<state, timers, now, engine, input, cad, listeners>>

\* ensureMapConnectivity(map, size): the flood fill from the spawn cell, the
\* paths of connectUnreachableAreas and the emergency pass; the grid is returned
EnsureMapConnectivity ==
    /\ gen.stage = "special"
    /\ LET reachable == floodFill(gen.map, gen.map.size \div 2, gen.map.size \div 2)
           connected == connectUnreachableAreas(gen.map, reachable)
       IN  \E draw \in EmergencyDraws(gen.map.size) :
              gen' = [stage |-> "returned",
                      map |-> createEmergencyConnections(connected, draw)]
    /\ UNCHANGED <<state, timers, now, engine, input, cad, listeners>>

NextGen ==
    \/ GenerateRooms
    \/ GenerateMaze
    \/ GeneratePillars
    \/ GenerateSpecialRooms
    \/ EnsureMapConnectivity

SpecGen == InitGen /\ [][NextGen]_vars

----------------------------------------------------------------------------
(* The repair specification: the flood fill and connectUnreachableAreas of  *)
(* ensureMapConnectivity on small grids with a walled border                *)

SmallSize == 5
RingSize == 7

\* the input grids: every grid of SmallSize with a walled border, and the grids
\* of RingSize with a walled border whose other walls are among the eight
\* neighbours of the spawn cell
RepairInputs ==
    {[size |-> SmallSize, walls |-> BorderCells(SmallSize) \cup w] :
        w \in SUBSET Interior(SmallSize)}
    \cup {[size |-> RingSize, walls |-> BorderCells(RingSize) \cup w] :
             w \in SUBSET (((RingSize \div 2 - 1)..(RingSize \div 2 + 1))
                              \X ((RingSize \div 2 - 1)..(RingSize \div 2 + 1))
                           \ {<<RingSize \div 2, RingSize \div 2>>})}

InitRepair ==
    /\ state = Unused
    /\ timers = Unused
    /\ now = 0
    /\ listeners = Unused
    /\ engine = Unused
    /\ input = Unused
    /\ cad = Unused
    /\ gen \in {[stage |-> "input", map |-> m, reachable |-> {}] : m \in RepairInputs}

\* const reachable = this.floodFill(map, playerStartX, playerStartY, size)
FloodFillFromStart ==
    /\ gen.stage = "input"
    /\ gen' = [gen EXCEPT !.stage = "filled",
                          !.reachable = floodFill(gen.map, gen.map.size \div 2,
                                                  gen.map.size \div 2)]
    /\ UNCHANGED <<state, timers, now, engine, input, cad, listeners>>

\* this.connectUnreachableAreas(map, reachable, size)
ConnectUnreachableAreas ==
    /\ gen.stage = "filled"
    /\ gen' = [gen EXCEPT !.stage = "repaired",
                          !.map = connectUnreachableAreas(gen.map, gen.reachable)]
    /\ UNCHANGED <<state, timers, now, engine, input, cad, listeners>>

NextRepair ==
    \/ FloodFillFromStart
    \/ ConnectUnreachableAreas

SpecRepair == InitRepair /\ [][NextRepair]_vars

----------------------------------------------------------------------------
(* The audio specification: the AudioSystem the engine holds.  engine is     *)
(* the record of its fields; started counts the calls of source.start(),    *)
(* and now is Date.now() in milliseconds.  Gain values, sound buffers and   *)
(* the settings listeners are left out.                                     *)

MaxStarts == 3
MaxSounds == 2
MaxDateNow == 240
DateNowStep == 60
MusicUpdateInterval == 100

SongTypes == {"exploration", "combat", "boss", "victory", "defeat"}

\* what getGameStateForMusic can hand to updateGameStateForMusic
MusicStates ==
    [gameStatus : {"playing", "victory", "defeat"}, isBossLevel : BOOLEAN,
     isInCombat : BOOLEAN, nearbyEnemyCount : {0, 1}]

\* the AudioSystem after its constructor: getGlobalAudioContext returned a
\* context, or null, and then the settings are disabled
NewAudioSystem(hasContext) ==
    [settings |-> [enabled |-> hasContext], audioContext |-> hasContext,
     ambientSource |-> FALSE, activeSounds |-> 0, currentSongConfig |-> <<>>,
     seededRandom |-> FALSE, lastMusicUpdate |-> 0, started |-> 0]

InitAudio ==
    /\ state = Unused
    /\ timers = Unused
    /\ now = DateNowStep
    /\ listeners = Unused
    /\ input = Unused
    /\ gen = Unused
    /\ cad = Unused
    /\ engine \in {NewAudioSystem(hasContext) : hasContext \in BOOLEAN}

\* Date.now() moves on
DateNowPasses ==
    /\ now < MaxDateNow
    /\ now' = now + DateNowStep
    /\ UNCHANGED <<state, timers, engine, input, gen, cad, listeners>>

\* updateSettings({ enabled })
UpdateSettings ==
    /\ \E enabled \in BOOLEAN : engine' = [engine EXCEPT !.settings.enabled = enabled]
    /\ UNCHANGED <<state, timers, now, input, gen, cad, listeners>>

\* playSound(soundType, volume)
PlaySound ==
    /\ engine.activeSounds < MaxSounds
    /\ engine.started < MaxStarts
    /\ engine' = IF ~engine.settings.enabled \/ ~engine.audioContext THEN engine
                 ELSE [engine EXCEPT !.activeSounds = @ + 1, !.started = @ + 1]
    /\ UNCHANGED <<state, timers, now, input, gen, cad, listeners>>

\* the "ended" event of a sound effect's source
SoundEnded ==
    /\ engine.activeSounds > 0
    /\ engine' = [engine EXCEPT !.activeSounds = @ - 1]
    /\ UNCHANGED <<state, timers, now, input, gen, cad, listeners>>

\* playAmbientMusic()
PlayAmbientMusic ==
    /\ engine.started < MaxStarts
    /\ engine' = IF ~engine.settings.enabled \/ ~engine.audioContext
                    \/ engine.ambientSource
                 THEN engine
                 ELSE [engine EXCEPT !.ambientSource = TRUE, !.started = @ + 1]
    /\ UNCHANGED <<state, timers, now, input, gen, cad, listeners>>

\* stopAmbientMusic()
stopAmbientMusic(a) == [a EXCEPT !.ambientSource = FALSE]

StopAmbientMusic ==
    /\ engine' = stopAmbientMusic(engine)
    /\ UNCHANGED <<state, timers, now, input, gen, cad, listeners>>

\* determineSongType(gameState)
determineSongType(gameState) ==
    IF gameState.gameStatus = "victory" THEN "victory"
    ELSE IF gameState.gameStatus = "defeat" THEN "defeat"
    ELSE IF gameState.isBossLevel /\ gameState.isInCombat THEN "boss"
    ELSE IF gameState.isInCombat \/ gameState.nearbyEnemyCount > 0 THEN "combat"
    ELSE "exploration"

\* playGeneratedSong(buffer)
playGeneratedSong(a) ==
    IF ~a.audioContext THEN a
    ELSE [a EXCEPT !.started = @ + 1, !.ambientSource = TRUE]

\* generateProceduralSong(config, gameState)
generateProceduralSong(a) ==
    IF ~a.audioContext \/ ~a.seededRandom THEN a
    ELSE playGeneratedSong(stopAmbientMusic(a))

\* generateAdaptiveMusic(songType, gameState)
generateAdaptiveMusic(a, songType) ==
    IF ~a.audioContext THEN a
    ELSE generateProceduralSong([a EXCEPT !.currentSongConfig = <<songType>>,
                                          !.seededRandom = TRUE])

\* updateGameStateForMusic(gameState) at Date.now() = time
updateGameStateForMusic(a, gameState, time) ==
    LET newSongType == determineSongType(gameState)
    IN  IF a.currentSongConfig = <<>> \/ a.currentSongConfig[1] # newSongType
        THEN generateAdaptiveMusic(a, newSongType)
        ELSE IF time - a.lastMusicUpdate > MusicUpdateInterval
        THEN [a EXCEPT !.lastMusicUpdate = time]
        ELSE a

UpdateGameStateForMusic ==
    /\ engine.started < MaxStarts
    /\ \E gameState \in MusicStates :
          engine' = updateGameStateForMusic(engine, gameState, now)
    /\ UNCHANGED <<state, timers, now, input, gen, cad, listeners>>

\* cleanup()
Cleanup ==
    /\ engine' = [stopAmbientMusic(engine) EXCEPT !.activeSounds = 0,
                                                  !.audioContext = FALSE]
    /\ UNCHANGED <<state, timers, now, input, gen, cad, listeners>>

NextAudio ==
    \/ DateNowPasses
    \/ UpdateSettings
    \/ PlaySound
    \/ SoundEnded
    \/ PlayAmbientMusic
    \/ StopAmbientMusic
    \/ UpdateGameStateForMusic
    \/ Cleanup

SpecAudio == InitAudio /\ [][NextAudio]_vars

----------------------------------------------------------------------------
(* The broadcast specification: subscribe, the handles it returns and       *)
(* notifyListeners, as GameStateManager and InputSystem have them, with     *)
(* listeners that may call their own handle while they are notified.        *)
(* listeners.list is this.listeners, each entry with the number of the      *)
(* subscribe call that pushed it; fn[n] is the function the n-th call       *)
(* registered and called[n] how often its handle has been called (2 stands  *)
(* for twice or more); before and invoked are the array at the start of the *)
(* last broadcast and the entries it invoked, last is the last handle call. *)

MaxSubscriptions == 3

ListenerFns == {"a", "b"}

NoRegistrations ==
    [list |-> <<>>, fn |-> <<>>, called |-> <<>>, before |-> <<>>, invoked |-> <<>>,
     last |-> [id |-> 0, again |-> FALSE, removed |-> {}]]

\* this.listeners.indexOf(listener), counted from 1; 0 when there is none
indexOf(list, listener) ==
    IF \E i \in 1..Len(list) : list[i].listener = listener
    THEN CHOOSE i \in 1..Len(list) :
            list[i].listener = listener /\ \A j \in 1..(i - 1) : list[j].listener # listener
    ELSE 0

\* the handle the id-th subscribe call returned
handle(ls, id) ==
    LET index == indexOf(ls.list, ls.fn[id])
    IN  [ls EXCEPT !.list = IF index > 0
                             THEN SubSeq(@, 1, index - 1) \o SubSeq(@, index + 1, Len(@))
                             ELSE @,
                   !.called[id] = Min(@ + 1, 2),
                   !.last = [id |-> id, again |-> ls.called[id] > 0,
                             removed |-> IF index > 0 THEN {ls.list[index].id} ELSE {}]]

\* Array.prototype.forEach over this.listeners from index k, with the length
\* len taken when the loop started: an index the array no longer has is
\* skipped; the listeners in leavers call their own handle when invoked
RECURSIVE forEach(_, _, _, _)
forEach(ls, k, len, leavers) ==
    IF k > len \/ k > Len(ls.list) THEN ls
    ELSE LET entry == ls.list[k]
             told == [ls EXCEPT !.invoked = Append(@, entry.id)]
         IN  forEach(IF entry.id \in leavers THEN handle(told, entry.id) ELSE told,
                     k + 1, len, leavers)

InitBroadcast ==
    /\ state = Unused
    /\ timers = Unused
    /\ now = 0
    /\ engine = Unused
    /\ input = Unused
    /\ gen = Unused
    /\ cad = Unused
    /\ listeners = NoRegistrations

\* subscribe(listener)
SubscribeListener ==
    /\ Len(listeners.fn) < MaxSubscriptions
    /\ \E listener \in ListenerFns :
          listeners' = [listeners EXCEPT
                           !.list = Append(@, [listener |-> listener,
                                               id |-> Len(listeners.fn) + 1]),
                           !.fn = Append(@, listener),
                           !.called = Append(@, 0)]
    /\ UNCHANGED <<state, timers, now, engine, input, gen, cad>>

\* a handle is called outside a broadcast
CallHandle ==
    /\ \E id \in 1..Len(listeners.fn) : listeners' = handle(listeners, id)
    /\ UNCHANGED <<state, timers, now, engine, input, gen, cad>>

\* notifyListeners(), for any choice of the listeners that leave
Broadcast ==
    /\ \E leavers \in SUBSET (1..Len(listeners.fn)) :
          listeners' = forEach([listeners EXCEPT !.before = listeners.list,
                                                !.invoked = <<>>],
                               1, Len(listeners.list), leavers)
    /\ UNCHANGED <<state, timers, now, engine, input, gen, cad>>

NextBroadcast ==
    \/ SubscribeListener
    \/ CallHandle
    \/ Broadcast

SpecBroadcast == InitBroadcast /\ [][NextBroadcast]_vars

----------------------------------------------------------------------------
(* The cadence specification: two engines started from the same state, one  *)
(* whose host delivers a tick every two fixed steps and one whose host      *)
(* delivers a tick every fixed step, with no input and the same draws       *)

\* enemies whose attack cooldown one gameLoop call counted down
CooldownDecrements(before, after) ==
    Cardinality({i \in 1..Len(before.enemies) :
                    /\ before.enemies[i].attackCooldown > 0
                    /\ after.enemies[i].attackCooldown # before.enemies[i].attackCooldown})

\* enemies one gameLoop call moved
MovementSteps(before, after) ==
    Cardinality({i \in 1..Len(before.enemies) :
                    \/ after.enemies[i].x # before.enemies[i].x
                    \/ after.enemies[i].y # before.enemies[i].y})

\* enemies that attacked the player in one gameLoop call
Attacks(before, after) ==
    Cardinality({i \in 1..Len(before.enemies) :
                    after.enemies[i].attackCooldown > before.enemies[i].attackCooldown})

\* one engine of the pair: its game state, its host's clock and its tallies
StartRun(s) == [s |-> s, time |-> s.lastUpdateTime,
                decrements |-> 0, movements |-> 0, attacks |-> 0]

\* the end of the interval both engines cover
CadEnd == 1 + CadFrames * 2 * FIXED_TIMESTEP

\* the host calls gameLoop after dt more time
RunFrame(run, dt) ==
    LET after == Frame(run.s, run.time + dt, <<>>, NoMove, 0, Quiet).s
    IN  [s |-> after, time |-> run.time + dt,
         decrements |-> run.decrements + CooldownDecrements(run.s, after),
         movements |-> run.movements + MovementSteps(run.s, after),
         attacks |-> run.attacks + Attacks(run.s, after)]

InitCadence ==
    /\ state = Unused
    /\ timers = Unused
    /\ now = 0
    /\ listeners = Unused
    /\ engine = Unused
    /\ input = Unused
    /\ gen = Unused
    /\ \E s \in {MidGame(m, h, p) : m \in GeneratedMaps(worldSize),
                                     h \in {100, 10}, p \in BOOLEAN}
              \cup {LastEnemy(m) : m \in GeneratedMaps(worldSize)} :
          cad = [stage |-> "run", slow |-> StartRun(s), fast |-> StartRun(s)]

\* a tick of the slower host
SlowFrame ==
    /\ cad.slow.time + 2 * FIXED_TIMESTEP <= CadEnd
    /\ cad' = [cad EXCEPT !.slow = RunFrame(@, 2 * FIXED_TIMESTEP)]
    /\ UNCHANGED <<state, timers, now, engine, input, gen, listeners>>

\* a tick of the faster host
FastFrame ==
    /\ cad.fast.time + FIXED_TIMESTEP <= CadEnd
    /\ cad' = [cad EXCEPT !.fast = RunFrame(@, FIXED_TIMESTEP)]
    /\ UNCHANGED <<state, timers, now, engine, input, gen, listeners>>

NextCadence ==
    \/ SlowFrame
    \/ FastFrame

SpecCadence == InitCadence /\ [][NextCadence]_vars

----------------------------------------------------------------------------
(* The input specification: InputSystem's key handlers, their 50 ms timers  *)
(* and the listener GameEngine subscribes                                   *)

\* in play with the pointer locked, or before the first click
InitInput ==
    /\ now = 1
    /\ listeners = Unused
    /\ timers = NoTimers
    /\ gen = Unused
    /\ cad = Unused
    /\ state \in {MidGame(m, 100, FALSE) : m \in GeneratedMaps(worldSize)}
    /\ engine = Playing
    /\ input \in {Locked, NoInput}

\* InputSystem.handleKeyDown for Escape
KeyDownEscape ==
    /\ input.escapes < MaxEscapes
    /\ input.clearPause < MaxPending
    /\ input.lockEvents < MaxPending
    /\ LET l == Listener(state, [input EXCEPT !.pausePressed = TRUE,
                                              !.escapes = @ + 1])
       IN  /\ l.inp.toggles <= 2 * MaxEscapes
           /\ state' = l.s
           /\ input' = [l.inp EXCEPT !.clearPause = @ + 1]
           /\ listeners' = Observed(listeners, state, {}, l.notifies)
    /\ UNCHANGED <<timers, now, engine, gen, cad>>

\* InputSystem.handleKeyDown for Digit1, Digit2, Digit3
KeyDownWeapon ==
    /\ input.clearWeapon < MaxPending
    /\ input.lockEvents < MaxPending
    /\ \E weapon \in Weapons :
          LET l == Listener(state, [input EXCEPT !.weaponSwitchPressed = <<weapon>>])
          IN  /\ l.inp.toggles <= 2 * MaxEscapes
              /\ state' = l.s
              /\ input' = [l.inp EXCEPT !.clearWeapon = @ + 1]
              /\ listeners' = Observed(listeners, state, {}, l.notifies)
    /\ UNCHANGED <<timers, now, engine, gen, cad>>

\* the 50 ms timer of an Escape fires
ClearPause ==
    /\ input.clearPause > 0
    /\ input' = [input EXCEPT !.clearPause = @ - 1, !.pausePressed = FALSE]
    /\ UNCHANGED <<state, timers, now, engine, gen, cad, listeners>>

\* the 50 ms timer of a weapon key fires
ClearWeapon ==
    /\ input.clearWeapon > 0
    /\ input' = [input EXCEPT !.clearWeapon = @ - 1, !.weaponSwitchPressed = <<>>]
    /\ UNCHANGED <<state, timers, now, engine, gen, cad, listeners>>

NextInput ==
    \/ KeyDownEscape
    \/ KeyDownWeapon
    \/ ClearPause
    \/ ClearWeapon
    \/ PointerLockChange
    \/ MouseDown

SpecInput == InitInput /\ [][NextInput]_vars

\* a state the game reaches in play on the first floor: as MidGame, with one
\* enemy of the given class left, in the given state, the given tenths of a cell
\* west of the player, or east of it, where the pillar hides whatever stands
\* beyond it
Watched(worldMap, enemyType, enemyState, tenths, east) ==
    LET s == MidGame(worldMap, 100, FALSE)
        c == Centre(worldMap.size)
        x == IF east THEN c + Tenths(tenths) ELSE c - Tenths(tenths)
        enemy == [NewEnemy(1, x, c, enemyType, 45, enemyState, 100)
                    EXCEPT !.lastPlayerX = c, !.lastPlayerY = c,
                           !.patrolTarget = IF enemyState = "patrolling"
                                            THEN <<[x |-> x, y |-> c - PosScale]>>
                                            ELSE <<>>]
    IN  [s EXCEPT !.enemies = <<enemy>>, !.nextEnemyId = 2]

\* the health a boss of the given maximum has at the given percentage
HealthAt(maxHealth, percent) == (maxHealth * percent) \div 100

\* the phases a boss with the given health can be in: checkBossPhaseTransition
\* passes a threshold only once the health is at or below it
PhasesAt(boss, health) ==
    {p \in 0..Len(boss.phaseTransitions) :
        p = 0 \/ health * 100 <= boss.phaseTransitions[p] * boss.maxHealth}

\* a state the game reaches in play on the boss floor f: the boss idles the
\* given tenths of a cell west of the player with the given health, phase,
\* spawns remaining and spawn cooldown; its minions so far are dead
Arena(f, tenths, percent, phase, spawns, cooldown) ==
    LET before == CHOOSE m \in GeneratedMaps(FloorSize(f - 1)) : TRUE
        worldMap == CHOOSE m \in GeneratedMaps(FloorSize(f)) : TRUE
        c == Centre(worldMap.size)
        s == progressToNextFloor(
                 [FloorCleared(before) EXCEPT !.currentFloor = f - 1,
                                              !.floorTheme = getFloorTheme(f - 1)],
                 worldMap,
                 [enemies |-> <<>>, boss |-> <<[x |-> c - 17 * PosScale, y |-> c]>>,
                  pickups |-> <<>>])
        boss == s.enemies[1]
    IN  [s EXCEPT !.enemies = <<[boss EXCEPT
                                    !.x = c - Tenths(tenths),
                                    !.health = HealthAt(boss.maxHealth, percent),
                                    !.currentPhase = phase,
                                    !.spawnsRemaining = spawns,
                                    !.spawnCooldown = cooldown]>>,
                  !.nextEnemyId = s.nextEnemyId + 8,
                  !.lastUpdateTime = 1]

\* the boss floors of the three boss classes
BossFloors == {5, 10, 15}

\* the enemy AI: in play, one enemy of some class in some state at one of the
\* distances around the ranges the AI tests, or a boss idling at one of the
\* distances around its spawn band, its health around its phase thresholds
InitAI ==
    /\ now = 1
    /\ listeners = Unused
    /\ timers = NoTimers
    /\ gen = Unused
    /\ cad = Unused
    /\ state \in
          {Watched(m, enemyType, enemyState, tenths, east) :
              m \in GeneratedMaps(worldSize), enemyType \in EnemyTypes,
              enemyState \in {"idle", "patrolling", "chasing", "attacking"},
              tenths \in {14, 15, 25, 26, 79, 80, 100, 120}, east \in BOOLEAN}
          \cup UNION {{Arena(f, tenths, percent, phase, sc[1], sc[2]) :
                          phase \in PhasesAt(Arena(f, tenths, 100, 0, 0, 0).enemies[1],
                                             HealthAt(Arena(f, tenths, 100, 0, 0, 0)
                                                          .enemies[1].maxHealth,
                                                      percent)),
                          sc \in {<<0, 0>>, <<1, 0>>, <<1, 1>>, <<2, 2>>}} :
                       f \in BossFloors, tenths \in {78, 80, 81, 199, 200},
                       percent \in {100, 80, 60, 21, 10}}
    /\ engine = Playing
    /\ input = Locked

\* a tick with one of the draws of the boss floor and no input
AILoop == gameLoop({NoMove}, {0}, BossRnd)

NextAI ==
    \/ TimePasses
    \/ AILoop

SpecAI == InitAI /\ [][NextAI]_vars

\* where the player can stand: half a cell into the row of the pillar and a
\* twentieth of a cell west of it, facing it; a twentieth of a cell north-west of
\* the pillar's corner, facing the corner; on the spawn point; in the north-west
\* corner cell of the interior, facing the corner of the grid
Stands(size) ==
    LET c == Centre(size)
        face == c + 3 * PosScale - PosScale \div 20
    IN  {[x |-> face, y |-> c + PosScale \div 2, angle |-> 0],
         [x |-> face, y |-> c - PosScale \div 20, angle |-> PI \div 4],
         [x |-> c, y |-> c, angle |-> 0],
         [x |-> PosScale + PosScale \div 20, y |-> PosScale + PosScale \div 20,
          angle |-> PI + PI \div 4]}

\* where the one enemy can be: just east of the pillar and chasing, patrolling or
\* exploring westwards into it; just east of the west border and exploring
\* westwards; in the open and chasing
Prowlers(size) ==
    LET c == Centre(size)
        y == c + PosScale \div 2
        back == c + 4 * PosScale + PosScale \div 100
        west == <<[dx |-> -1, dy |-> 0]>>
    IN  {[NewEnemy(1, back, y, "grunt", 20, "chasing", 100)
             EXCEPT !.lastPlayerX = c, !.lastPlayerY = y],
         [NewEnemy(1, back, y, "grunt", 20, "patrolling", 100)
             EXCEPT !.patrolTarget = <<[x |-> c, y |-> y]>>],
         [NewEnemy(1, back, y, "grunt", 20, "idle", 50)
             EXCEPT !.explorationDirection = west],
         [NewEnemy(1, PosScale + 1, y, "grunt", 20, "idle", 50)
             EXCEPT !.explorationDirection = west],
         [NewEnemy(1, c + 5 * PosScale, c + 2 * PosScale, "soldier", 30, "chasing", 100)
             EXCEPT !.lastPlayerX = c, !.lastPlayerY = c]}

\* a state the game reaches in play on the first floor: the player has walked to
\* the stand and one enemy is left
Cornered(worldMap, stand, enemy) ==
    LET s == MidGame(worldMap, 100, FALSE)
    IN  [s EXCEPT !.player.x = stand.x, !.player.y = stand.y,
                  !.player.angle = stand.angle,
                  !.enemies = <<enemy>>, !.nextEnemyId = 2]

\* walking against walls: in play, next to the pillar or the border
InitWalk ==
    /\ now = 1
    /\ listeners = Unused
    /\ timers = NoTimers
    /\ gen = Unused
    /\ cad = Unused
    /\ state \in {Cornered(m, stand, enemy) : m \in GeneratedMaps(worldSize),
                                              stand \in Stands(worldSize),
                                              enemy \in Prowlers(worldSize)}
    /\ engine = Playing
    /\ input = Locked

\* what getMovementInput returns while walking: nothing, forward, backward,
\* forward and left, right
WalkMoves ==
    {NoMove, [NoMove EXCEPT !.forward = TRUE], [NoMove EXCEPT !.backward = TRUE],
     [NoMove EXCEPT !.forward = TRUE, !.left = TRUE], [NoMove EXCEPT !.right = TRUE]}

WalkLoop == gameLoop(WalkMoves, {0}, Rnd)

NextWalk ==
    \/ TimePasses
    \/ WalkLoop

SpecWalk == InitWalk /\ [][NextWalk]_vars

\* the last stand: in play with 10 or 100 health, the last enemy attacking
InitEnd ==
    /\ now = 1
    /\ listeners = Unused
    /\ timers = NoTimers
    /\ gen = Unused
    /\ cad = Unused
    /\ state \in {Duel(m, h, p) : m \in GeneratedMaps(worldSize),
                                  h \in {10, 100}, p \in BOOLEAN}
    /\ engine = Playing
    /\ input = Locked

NextEnd ==
    \/ TimePasses
    \/ QuietLoop
    \/ MouseDown
    \/ EnginePause
    \/ EngineResume
    \/ EngineReset
    \/ CheckFires
    \/ AdvanceFires

SpecEnd == InitEnd /\ [][NextEnd]_vars

----------------------------------------------------------------------------
(* Properties of the combat specification *)

\* C1: in every reachable state 0 <= player.health <= player.maxHealth; an enemy
\* melee attack on a player with less health than the attack's damage never
\* leaves health below 0
C1_HealthClamped ==
    /\ 0 <= state.player.health
    /\ state.player.health <= state.player.maxHealth

\* C3: after every damageEnemy call every enemy of the live set has health > 0:
\* an enemy whose health reaches 0 or less leaves the array in the same call
C3_LiveEnemiesHaveHealth ==
    \A i \in 1..Len(state.enemies) : state.enemies[i].health > 0

\* a shot has killed the wounded grunt, and a second shot has wounded the captain
C3_Witness ==
    /\ engine.shots = 2
    /\ Len(state.enemies) = 2
    /\ \E i \in 1..Len(state.enemies) :
          state.enemies[i].isHurt /\ state.enemies[i].health < state.enemies[i].maxHealth

\* the angular deviation between two angles, taken modulo a full turn
AngularDeviation(a, b) ==
    LET turn == (a - b) % TwoPi
    IN  IF turn > PI THEN TwoPi - turn ELSE turn

\* the three eligibility conditions of a shot on one enemy
WithinRangeRayAndCone(s, enemy) ==
    LET distSq == DistSq(enemy.x, enemy.y, s.player.x, s.player.y)
        weaponRange == getWeaponRange(s) * PosScale
        rayDistance == castRay(s.player.x, s.player.y, s.player.angle, s.worldMap)
        bearing == Atan2(enemy.y - s.player.y, enemy.x - s.player.x)
    IN  /\ distSq <= weaponRange * weaponRange
        /\ distSq <= rayDistance * rayDistance
        /\ AngularDeviation(s.player.angle, bearing) <= getWeaponAccuracy(s)

\* this step fires a shot
ShotFired == engine'.shots = engine.shots + 1

\* this step takes health from the enemy at index i, or removes it
Damaged(i) ==
    \A j \in 1..Len(state'.enemies) :
        state'.enemies[j].id = state.enemies[i].id
            => state'.enemies[j].health < state.enemies[i].health

\* C9: a shot damages an enemy only if, at the moment of the shot, the enemy is
\* within the weapon's range, no farther than the first wall along the firing
\* angle, and within the accuracy half-angle of player.angle modulo a full
\* turn, whatever the value of player.angle
C9_DamageNeedsEligibility ==
    [][ShotFired => \A i \in 1..Len(state.enemies) :
                        Damaged(i) => WithinRangeRayAndCone(state, state.enemies[i])]_vars

\* C10: a shot that fires takes health from at most one enemy, the first enemy
\* of the array that passes the eligibility tests, and leaves the health of
\* every other enemy as it was
C10_ShotDamagesFirstEligibleOnly ==
    [][ShotFired =>
          LET i == ShotTarget(state)
              before == [j \in 1..Len(state.enemies) |-> state.enemies[j].health]
              after == [j \in 1..Len(state'.enemies) |-> state'.enemies[j].health]
          IN  \/ after = before
              \/ /\ i > 0
                 /\ Len(after) = Len(before)
                 /\ after[i] < before[i]
                 /\ \A j \in 1..Len(before) : j # i => after[j] = before[j]
              \/ /\ i > 0
                 /\ after = RemoveAt(before, i)]_vars

----------------------------------------------------------------------------
(* Properties of the specification of the floor's end *)

\* this step fires a callback that was pending at a reset or a stop
StaleFires ==
    \/ timers'.staleCheck < timers.staleCheck
    \/ timers'.staleAdvance < timers.staleAdvance

\* C4: a deferred callback (the 100 ms check of the floor, the floor advance)
\* scheduled before reset() or before the engine is stopped never changes the
\* GameState when it fires afterwards
C4_StaleCallbacksInert == [][StaleFires => state' = state]_vars

----------------------------------------------------------------------------
(* Properties of the specification of the clock *)

\* this step is a call of gameLoop, and so of updateWithDeltaTime
Ticked == engine'.frame # engine.frame

\* C5: a call of updateWithDeltaTime while not paused, other than the first tick
\* after construction or reset, attempts floor((accumulator before + elapsed
\* time) / fixed step) logic steps and leaves 0 <= accumulator < fixed step
C5_StepsFollowAccumulator ==
    [][(Ticked /\ ~state.isPaused /\ state.lastUpdateTime # 0) =>
          /\ engine'.steps =
                (state.accumulator + (now - state.lastUpdateTime)) \div FIXED_TIMESTEP
          /\ 0 <= state'.accumulator
          /\ state'.accumulator < FIXED_TIMESTEP]_vars

\* a tick has run two logic steps and kept a remainder
C5_Witness ==
    /\ ~state.isPaused
    /\ engine.steps = 2
    /\ state.accumulator = 1
    /\ state.lastUpdateTime = now

\* C7: wall-clock time spent paused never produces logic steps: the steps a tick
\* runs are covered by the accumulator and the time that passed unpaused since
\* the previous tick, however long the pause and whether or not the host
\* delivered a tick during it
C7_PausedTimeMakesNoSteps ==
    [][Ticked => engine'.steps * FIXED_TIMESTEP <= state.accumulator + engine.unpaused]_vars

----------------------------------------------------------------------------
(* Property of the cadence specification *)

\* C6: the cadence of enemy AI and combat is independent of the host's frame
\* rate: when two runs from the same state have covered the same wall-clock
\* interval, one with twice as many host ticks as the other, they have made the
\* same number of attack-cooldown decrements, enemy movement steps and enemy
\* attacks on the player
C6_CadenceIndependentOfFrameRate ==
    cad.slow.time = cad.fast.time =>
        /\ cad.slow.decrements = cad.fast.decrements
        /\ cad.slow.movements = cad.fast.movements
        /\ cad.slow.attacks = cad.fast.attacks

----------------------------------------------------------------------------
(* Property of the input specification *)

\* C8: each Escape keydown causes exactly one pause toggle, even when another
\* input notification (the pointerlockchange the pause causes, a weapon key)
\* reaches the listeners before the 50 ms timer clears pausePressed
C8_OneTogglePerEscape == input.toggles = input.escapes

----------------------------------------------------------------------------
(* Property of the generator specification *)

\* C2: in every grid the generator returns, after all its stages and the final
\* emergency pass, every open interior cell is reachable from the spawn cell
\* (floor(size/2), floor(size/2)) through 4-directional adjacency of open cells
C2_ReturnedGridConnected ==
    gen.stage = "returned" =>
        (Interior(gen.map.size) \ gen.map.walls)
            \subseteq floodFill(gen.map, gen.map.size \div 2, gen.map.size \div 2)

\* the spawn cell and its eight neighbours
StartArea(size) ==
    ((size \div 2 - 1)..(size \div 2 + 1)) \X ((size \div 2 - 1)..(size \div 2 + 1))

\* C25: in every grid the generator returns, every border cell (row or column 0
\* or size - 1) is a wall, and the spawn cell (floor(size/2), floor(size/2))
\* with its 3x3 neighbourhood is passable
C25_BorderWalledStartClear ==
    gen.stage = "returned" =>
        /\ BorderCells(gen.map.size) \subseteq gen.map.walls
        /\ StartArea(gen.map.size) \cap gen.map.walls = {}

\* a returned grid with the pillar three cells east of the spawn cell standing
C25_Witness ==
    /\ gen.stage = "returned"
    /\ <<gen.map.size \div 2 + 3, gen.map.size \div 2>> \in gen.map.walls
    /\ StartArea(gen.map.size) \cap gen.map.walls = {}

----------------------------------------------------------------------------
(* Properties of the specification of the arsenal *)

\* this step is a direct call of shoot()
ShootCalled == engine'.calls = engine.calls + 1 /\ engine'.call.op = "shoot"

\* C11: shoot() returns false, changes nothing and notifies no listener when the
\* status is not playing, when the game is paused or when the equipped weapon
\* has no ammunition; otherwise it returns true, takes exactly one round from the
\* equipped weapon only and sets attackTimer and muzzleFlashTimer to that
\* weapon's durations
C11_ShootContract ==
    [][ShootCalled =>
          LET w == state.player.weapon
          IN  IF \/ state.gameStatus # "playing"
                 \/ state.isPaused
                 \/ state.player.ammo[w] = 0
              THEN /\ ~engine'.call.returned
                   /\ ~engine'.call.notified
                   /\ state' = state
              ELSE /\ engine'.call.returned
                   /\ state'.player.ammo = [state.player.ammo EXCEPT ![w] = @ - 1]
                   /\ state'.player.attackTimer = WEAPON_STATS[w].attackDuration
                   /\ state'.player.muzzleFlashTimer = WEAPON_STATS[w].muzzleDuration
                   /\ state' = [state EXCEPT !.player = state'.player]]_vars

\* shoot() was called while the game was paused with rounds left, and refused
C11_Witness ==
    /\ engine.call.op = "shoot"
    /\ ~engine.call.returned
    /\ state.isPaused
    /\ state.player.ammo[state.player.weapon] > 0

\* this step is a direct call of switchWeapon(weapon)
SwitchCalled(weapon) == engine'.calls = engine.calls + 1 /\ engine'.call.op = weapon

\* C12: switchWeapon(w) with w not among the available weapons returns false,
\* changes nothing and notifies no listener; with w available it returns true
\* and w is the equipped weapon afterwards
C12_SwitchWeaponContract ==
    [][\A w \in Weapons :
          SwitchCalled(w) =>
              IF w \notin state.player.availableWeapons
              THEN /\ ~engine'.call.returned
                   /\ ~engine'.call.notified
                   /\ state' = state
              ELSE /\ engine'.call.returned
                   /\ state'.player.weapon = w]_vars

\* switchWeapon was called for a weapon the player does not have, and refused
C12_Witness ==
    /\ engine.call.op \in Weapons
    /\ ~engine.call.returned
    /\ engine.call.op \notin state.player.availableWeapons

\* C13: in every reachable state the ammunition of each weapon lies between 0
\* and that weapon's maximum, whatever shots, pickups and floor advances came
\* before
C13_AmmoWithinBounds ==
    \A w \in Weapons :
        /\ 0 <= state.player.ammo[w]
        /\ state.player.ammo[w] <= state.player.maxAmmo[w]

\* the pistol is full on the second floor, after a shot
C13_Witness ==
    /\ state.player.ammo.pistol = state.player.maxAmmo.pistol
    /\ state.currentFloor = 2
    /\ engine.call.op = "shoot"
    /\ engine.call.returned

\* this step is a reset: the state afterwards is a fresh initial state
ResetStep == state' \in {reset(m) : m \in GeneratedMaps(worldSize)}

\* C14: the equipped weapon is always one of the available weapons, the pistol
\* is always available, and a step only adds weapons to the set unless it is a
\* reset, which leaves the pistol alone, equipped
C14_WeaponHeld ==
    /\ [](/\ state.player.weapon \in state.player.availableWeapons
          /\ "pistol" \in state.player.availableWeapons)
    /\ [][\/ state.player.availableWeapons \subseteq state'.player.availableWeapons
          \/ /\ ResetStep
             /\ state'.player.availableWeapons = {"pistol"}
             /\ state'.player.weapon = "pistol"]_vars

\* both weapons were collected and the player switched back to the shotgun
C14_Witness ==
    /\ state.player.availableWeapons = Weapons
    /\ state.player.weapon = "shotgun"
    /\ engine.call.op = "shotgun"

----------------------------------------------------------------------------
(* Properties of the specification of the boss floor *)

\* C15: at all times the ids of the enemies in the array are pairwise distinct,
\* also on a boss floor after the boss has spawned minions
C15_EnemyIdsDistinct ==
    \A i, j \in 1..Len(state.enemies) :
        i # j => state.enemies[i].id # state.enemies[j].id

\* C16: the floor advances only from a cleared floor: one with no enemy left
\* and, if it is a boss floor, with bossDefeated set
C16_AdvanceOnlyWhenCleared ==
    [][state'.currentFloor > state.currentFloor =>
          /\ Len(state.enemies) = 0
          /\ state.isBossFloor => state.bossDefeated]_vars

----------------------------------------------------------------------------
(* Properties of the specification of the floor's end without a reset *)

\* C17: once the last enemy of a floor has been killed, the floor advances in
\* the end: currentFloor has increased and the status is playing
C17_ClearedFloorAdvances ==
    (state.currentFloor = 1 /\ Len(state.enemies) = 0)
        ~> (state.currentFloor > 1 /\ state.gameStatus = "playing")

\* the floor advanced after a kill and every callback has run
C17_Witness ==
    /\ state.currentFloor = 2
    /\ state.gameStatus = "playing"
    /\ engine.shots > 0
    /\ timers = NoTimers

\* this step advances the floor
FloorAdvanced == state'.currentFloor > state.currentFloor

\* C18: when the floor advances, currentFloor grows by exactly 1, isBossFloor
\* tells whether the new floor is a multiple of 5, bossDefeated is false, the
\* status is playing, health is min(maxHealth, health + 25), the ammunition of
\* pistol, shotgun and chaingun is min(max, ammo + 20 / 10 / 30), the player
\* stands on the centre of the map, and the pickups and enemies are new ones
C18_AdvanceEffects ==
    [][FloorAdvanced =>
          LET p == state.player
              q == state'.player
              refill == [pistol |-> 20, shotgun |-> 10, chaingun |-> 30]
          IN  /\ state'.currentFloor = state.currentFloor + 1
              /\ state'.isBossFloor = (state'.currentFloor % 5 = 0)
              /\ ~state'.bossDefeated
              /\ state'.gameStatus = "playing"
              /\ q.health = Min(p.maxHealth, p.health + 25)
              /\ \A w \in Weapons : q.ammo[w] = Min(p.maxAmmo[w], p.ammo[w] + refill[w])
              /\ q.x * 2 = state'.worldSize * PosScale
              /\ q.y * 2 = state'.worldSize * PosScale
              /\ \A i \in 1..Len(state'.pickups) :
                     state'.pickups[i].id >= state.nextPickupId
              /\ \A i \in 1..Len(state'.enemies) :
                     /\ state'.enemies[i].id >= state.nextEnemyId
                     /\ state'.enemies[i].health = state'.enemies[i].maxHealth]_vars

\* the boss floor was entered with a partial heal
C18_Witness ==
    /\ state.currentFloor = BossFloor
    /\ state.isBossFloor
    /\ state.player.health = 85
    /\ state.player.ammo.pistol = 70
    /\ Len(state.enemies) > 0

\* C19: every floor advance gives a grid strictly larger than that of the floor
\* just cleared, until the size has reached the cap of 96
C19_AdvanceGrowsGrid ==
    [][FloorAdvanced =>
          \/ state'.worldSize > state.worldSize
          \/ state.worldSize = 96]_vars

----------------------------------------------------------------------------
(* Properties of the specification of the firing range *)

\* floor(base * max(low, 1 - slope * d / range)) for low and slope in tenths and
\* d and range in position units
Falloff(base, low, slope, d, range) ==
    (base * Max(low * range, 10 * range - slope * d)) \div (10 * range)

\* C20: the damage a shot does to the enemy it hits is
\* floor(base * max(0.3, 1 - 0.7 * d / range)) for the shotgun and
\* floor(base * max(0.8, 1 - 0.2 * d / range)) for the pistol and the chaingun,
\* d being the distance to the enemy; it is never above base and never below
\* floor(0.3 * base), respectively floor(0.8 * base)
C20_DamageFalloff ==
    [][ShotFired /\ Len(state'.enemies) = Len(state.enemies) =>
          \A i \in 1..Len(state.enemies) :
              LET enemy == state.enemies[i]
                  dealt == enemy.health - state'.enemies[i].health
                  w == state.player.weapon
                  base == WEAPON_STATS[w].damage
                  range == WEAPON_STATS[w].range * PosScale
                  d == Sqrt(DistSq(enemy.x, enemy.y, state.player.x, state.player.y))
                  low == IF w = "shotgun" THEN 3 ELSE 8
                  slope == IF w = "shotgun" THEN 7 ELSE 2
              IN  dealt # 0 =>
                     /\ dealt = Falloff(base, low, slope, d, range)
                     /\ dealt <= base
                     /\ dealt >= (low * base) \div 10]_vars

\* the shotgun hit the captain at eight cells, the edge of its range, and took 6
C20_Witness ==
    /\ state.player.weapon = "shotgun"
    /\ Len(state.enemies) = 1
    /\ state.enemies[1].x = state.player.x - 8 * PosScale
    /\ state.enemies[1].health = state.enemies[1].maxHealth - 6
    /\ engine.shots = 1

----------------------------------------------------------------------------
(* Properties of melee on the boss floor *)

\* the rank of an enemy's class: grunt < soldier < captain < boss
ClassRank(e) ==
    IF e.isBoss THEN 4
    ELSE IF e.enemyType = "captain" THEN 3
    ELSE IF e.enemyType = "soldier" THEN 2
    ELSE 1

\* one enemy of each class below the bosses
LesserClasses ==
    {[isBoss |-> FALSE, enemyType |-> t] : t \in {"grunt", "soldier", "captain"}}

\* C21: the melee damage an attacking enemy applies to the player is strictly
\* ordered by class, grunt < soldier < captain < boss: what the only enemy on
\* the floor takes from the player in an update exceeds the melee damage of
\* every class of lower rank
C21_MeleeDamageByClass ==
    [][/\ Len(state.enemies) = 1
       /\ Len(state'.enemies) = 1
       /\ state'.player.health < state.player.health
       => \A o \in LesserClasses :
             ClassRank(o) < ClassRank(state.enemies[1]) =>
                meleeDamage(o) < state.player.health - state'.player.health]_vars

----------------------------------------------------------------------------
(* Properties of the store and its readers *)

\* C22: a snapshot returned by getState() is immutable with respect to the
\* store: what a reader finds in it (player fields, enemy list, pickup list,
\* grid) stays what it was when the snapshot was taken, whatever the store does
\* to its state afterwards
C22_SnapshotImmutable ==
    listeners.snapshot.taken =>
        ReadThrough(listeners.snapshot, state) = listeners.snapshot.copy

\* the listeners a sequence of listeners holds
Range(list) == {list[i] : i \in 1..Len(list)}

\* C23: after the unsubscribe handle subscribe(L) returned has been called, no
\* later state change invokes L; a state change invokes every registered
\* listener; reset() keeps the registered listeners
C23_UnsubscribeStops ==
    /\ [](/\ listeners.off \cap Range(listeners.notified) = {}
          /\ listeners.notified # <<>> =>
                 Range(listeners.list) \subseteq Range(listeners.notified))
    /\ [][ResetStep /\ state' # state => listeners'.list = listeners.list]_vars

----------------------------------------------------------------------------
(* Properties of the host's ticks with failing collaborators *)

\* C24: a failure the audio or rendering collaborator raises during a host tick
\* never halts the simulation: the tick completes and the next tick is still
\* scheduled, so that while the engine runs a frame is requested from the host
C24_FaultsDoNotHalt == engine.isRunning => engine.animationFrameId

----------------------------------------------------------------------------
(* Properties of the pickup sweep *)

\* the supplies of a player: what the pickups act on
Supplies(player) ==
    [health |-> player.health, ammo |-> player.ammo, weapon |-> player.weapon,
     availableWeapons |-> player.availableWeapons]

\* the pickup lies within collection range of the player
InReach(pickup, player) ==
    DistSq(pickup.x, pickup.y, player.x, player.y) < TenthsSq(PICKUP_RANGE)

\* the supplies after one pickup is applied once: health goes to health only;
\* ammunition only to the counter of the weapon equipped at that moment; a
\* weapon is added to the set, equipped, and its counter alone grows by the
\* pickup value, up to the weapon's maximum if capped
Applied(p, pickup, maxHealth, maxAmmo, capped) ==
    CASE pickup.type = "health" ->
            [p EXCEPT !.health = Min(@ + pickup.value, maxHealth)]
      [] pickup.type = "ammo" ->
            [p EXCEPT !.ammo[p.weapon] = Min(@ + pickup.value, maxAmmo[p.weapon])]
      [] pickup.type = "weapon" ->
            [p EXCEPT !.availableWeapons = @ \cup {pickup.weaponType},
                      !.weapon = pickup.weaponType,
                      !.ammo[pickup.weaponType] =
                          IF capped THEN Min(@ + pickup.value, maxAmmo[pickup.weaponType])
                          ELSE @ + pickup.value]

\* the supplies after every pickup within reach is applied once, from the last
\* pickup down to the first
RECURSIVE AppliedOnce(_, _, _, _)
AppliedOnce(p, player, i, capped) ==
    IF i < 1 THEN p
    ELSE AppliedOnce(IF InReach(state.pickups[i], player)
                     THEN Applied(p, state.pickups[i], player.maxHealth,
                                  player.maxAmmo, capped)
                     ELSE p,
                     player, i - 1, capped)

\* a step collects pickups and nothing else touches the supplies: afterwards
\* exactly the pickups out of reach lie where they lay, and the supplies are
\* those of AppliedOnce
SweepAsClaimed(capped) ==
    Len(state'.pickups) < Len(state.pickups) =>
        /\ state'.pickups =
              SelectSeq(state.pickups, LAMBDA pickup : ~InReach(pickup, state.player))
        /\ Supplies(state'.player) =
              AppliedOnce(Supplies(state.player), state.player,
                          Len(state.pickups), capped)

\* C26 as stated: each pickup within collection range is applied exactly once
\* and removed in the same sweep; an ammo pickup changes only the ammo of the
\* weapon equipped at the moment of collection; a weapon pickup adds the weapon
\* to availableWeapons, equips it and adds the pickup value to that weapon's
\* ammo only
C26_SweepAddsValue == [][SweepAsClaimed(FALSE)]_vars

\* C26, amended: as stated, but a weapon pickup adds the pickup value to the
\* weapon's ammo up to the weapon's maximum
C26_SweepAppliesOnce == [][SweepAsClaimed(TRUE)]_vars

\* three pickups were collected in one sweep, the shotgun's rounds reached the
\* maximum, and the chaingun, collected last, is equipped
C26_Witness ==
    /\ Len(state.pickups) = 0
    /\ state.nextPickupId = 4
    /\ state.player.ammo.shotgun = state.player.maxAmmo.shotgun
    /\ state.player.weapon = "chaingun"
    /\ state.player.ammo.chaingun = 30

----------------------------------------------------------------------------
(* Properties of the logic step *)

\* the player's health once every health pickup within reach is counted
HealthAfterSweep ==
    AppliedOnce(Supplies(state.player), state.player, Len(state.pickups), TRUE).health

C28_StatusAfterStep ==
    [][Ticked /\ state.gameStatus = "playing" /\ engine'.steps >= 1 =>
          state'.gameStatus = IF HealthAfterSweep <= 0 THEN "defeat"
                              ELSE IF Len(state.enemies) = 0 THEN "victory"
                              ELSE "playing"]_vars

\* the player died in the logic step that found no enemy left
C28_Witness ==
    /\ state.gameStatus = "defeat"
    /\ state.player.health <= 0
    /\ Len(state.enemies) = 0
    /\ state.currentFloor = 1

----------------------------------------------------------------------------
(* Properties of the game status *)

\* C29: the game is flagged paused exactly when its status is paused
C29_PausedIffStatusPaused == state.isPaused <=> state.gameStatus = "paused"

\* C30: once the status is defeat, a step that is not a reset leaves the
\* status, the floor number and the player's health as they are
C30_DefeatTerminal ==
    [][state.gameStatus = "defeat" /\ ~ResetStep =>
          /\ state'.gameStatus = "defeat"
          /\ state'.currentFloor = state.currentFloor
          /\ state'.player.health = state.player.health]_vars

----------------------------------------------------------------------------
(* Properties of the floor advance under pending callbacks *)

\* C31: the floor number goes up at most once after an enemy's death, however
\* many checks and advances are pending and whether or not the Next Level
\* button is clicked as well
C31_OneAdvancePerClear == engine.advanced <= 1

----------------------------------------------------------------------------
(* Property of the first tick *)

\* C32: a tick runs logic steps in status playing only once the enemies of the
\* floor in play have been generated
C32_NoStepBeforeEnemies ==
    [][Ticked /\ engine'.steps >= 1 /\ state.gameStatus = "playing" =>
          engine.generated]_vars

----------------------------------------------------------------------------
(* Properties of the enemy AI *)

\* the enemy at index i struck the player in this step: only a strike raises an
\* attack cooldown
Struck(i) == state'.enemies[i].attackCooldown > state.enemies[i].attackCooldown

\* the enemies a step keeps: a tick removes none and appends the minions spawned
SameEnemies ==
    /\ Len(state'.enemies) >= Len(state.enemies)
    /\ \A i \in 1..Len(state.enemies) : state'.enemies[i].id = state.enemies[i].id

AIUpdated ==
    Ticked /\ engine'.steps = 1 /\ state'.gameStatus = "playing" /\ ~state'.isPaused

\* the squared distance from the enemy to the player as the AI update sees it,
\* after the player's move of the tick
DistSqToPlayer(enemy) == DistSq(enemy.x, enemy.y, state'.player.x, state'.player.y)

\* line of sight: the ray from the enemy towards the player meets its first wall
\* farther away than the player
SeesPlayer(enemy) ==
    LET hit == castRay(enemy.x, enemy.y,
                       Atan2(state'.player.y - enemy.y, state'.player.x - enemy.x),
                       state'.worldMap)
    IN  hit * hit > DistSqToPlayer(enemy)

\* the detection ranges by class, in tenths of a cell
ClassRange(enemy) ==
    IF enemy.isBoss THEN 250
    ELSE CASE enemy.enemyType = "grunt" -> 80
           [] enemy.enemyType = "soldier" -> 100
           [] enemy.enemyType = "captain" -> 120

C35_PhaseStepsUp ==
    [][\A i \in 1..Len(state.enemies) :
          (state.enemies[i].isBoss /\ i <= Len(state'.enemies)
              /\ state'.enemies[i].id = state.enemies[i].id) =>
             LET boss == state.enemies[i]
                 after == state'.enemies[i]
             IN  /\ after.currentPhase >= boss.currentPhase
                 /\ after.currentPhase <= Len(after.phaseTransitions)
                 /\ after.currentPhase # boss.currentPhase =>
                        /\ Ticked
                        /\ boss.currentPhase < Len(boss.phaseTransitions)
                        /\ boss.health * 100
                              <= boss.phaseTransitions[boss.currentPhase + 1]
                                    * boss.maxHealth
                 /\ AIUpdated => after.currentPhase <= boss.currentPhase + 1]_vars

\* a boss at a tenth of its health that began in phase 0 is in phase 1 after one
\* AI update, with the second threshold already passed
C35_Witness ==
    /\ engine.frame > 1
    /\ engine.steps = 1
    /\ Len(state.enemies) >= 1
    /\ state.enemies[1].isBoss
    /\ state.enemies[1].currentPhase = 1
    /\ state.enemies[1].health * 100
          <= state.enemies[1].phaseTransitions[2] * state.enemies[1].maxHealth

\* the number of bosses among the enemies
Bosses == Cardinality({i \in 1..Len(state.enemies) : state.enemies[i].isBoss})

\* in this AI update boss i placed the minion that is now at index j
SpawnedBy(i, j) ==
    LET boss == state.enemies[i]
        after == state'.enemies[i]
        minion == state'.enemies[j]
        dSq == DistSqToPlayer(boss)
    IN  /\ boss.isBoss
        /\ after.id = boss.id
        /\ boss.spawnsRemaining > 0
        /\ boss.spawnCooldown <= 1
        /\ dSq > TenthsSq(80)
        /\ dSq < TenthsSq(200)
        /\ after.spawnsRemaining = boss.spawnsRemaining - 1
        /\ after.spawnsRemaining >= 0
        /\ after.spawnCooldown >= 120
        /\ ~minion.isBoss
        /\ InGrid(state'.worldMap, Floor(minion.x), Floor(minion.y))
        /\ Passable(state'.worldMap, Floor(minion.x), Floor(minion.y))
        /\ DistSq(minion.x, minion.y, state'.player.x, state'.player.y) > TenthsSq(40)

\* C36: a minion appears in an AI update only for a boss with spawnsRemaining > 0,
\* a spawn cooldown that has run out and a distance to the player strictly
\* between 8 and 20 cells; the spawn takes exactly one from spawnsRemaining,
\* which stays at 0 or more, sets the cooldown to 120 or more, adds at most one
\* minion per boss, and puts it on an open in-bounds cell more than 4 cells from
\* the player
C36_SpawnGuarded ==
    [][AIUpdated =>
          /\ Len(state'.enemies) <= Len(state.enemies) + Bosses
          /\ \A j \in Len(state.enemies) + 1..Len(state'.enemies) :
                \E i \in 1..Len(state.enemies) : SpawnedBy(i, j)
          /\ \A i \in 1..Len(state.enemies) :
                (state.enemies[i].isBoss /\ Len(state'.enemies) = Len(state.enemies)) =>
                    state'.enemies[i].spawnsRemaining >= state.enemies[i].spawnsRemaining]_vars

\* a boss has just placed its minion: one spawn is gone and the cooldown is set
C36_Witness ==
    /\ engine.frame > 1
    /\ Len(state.enemies) = 2
    /\ state.enemies[1].isBoss
    /\ state.enemies[1].spawnCooldown >= 120
    /\ state.enemies[1].spawnsRemaining \in {0, 1}
    /\ state.enemies[2].state = "chasing"
    /\ state.enemies[2].id = state.nextEnemyId - 1

\* the cell under the position is inside the grid and open
OnOpenCell(worldMap, x, y) == Passable(worldMap, Floor(x), Floor(y))

\* the player and every live enemy stand on open cells of the grid
Placed(s) ==
    /\ OnOpenCell(s.worldMap, s.player.x, s.player.y)
    /\ \A i \in 1..Len(s.enemies) :
          OnOpenCell(s.worldMap, s.enemies[i].x, s.enemies[i].y)

\* the position updatePlayer tries to reach with the given input
PlayerTarget(p, in) ==
    LET angle == p.angle - (IF in.rotateLeft THEN 30 ELSE 0)
                         + (IF in.rotateRight THEN 30 ELSE 0)
        side == angle - PI \div 2
        ahead == (IF in.forward THEN 1 ELSE 0) - (IF in.backward THEN 1 ELSE 0)
        aside == (IF in.left THEN 1 ELSE 0) - (IF in.right THEN 1 ELSE 0)
    IN  [x |-> p.x + ahead * PlayerStep(Cos(angle)) + aside * PlayerStep(Cos(side)),
         y |-> p.y + ahead * PlayerStep(Sin(angle)) + aside * PlayerStep(Sin(side))]

\* the player's step of this tick, for some input: both cells it looks up are in
\* the grid, x stays when the cell of the target is a wall, y stays when the cell
\* of the target row under the resulting x is a wall
PlayerStepped ==
    \E in \in WalkMoves :
       LET t == PlayerTarget(state.player, in)
           m == state.worldMap
           x1 == state'.player.x
           y1 == state'.player.y
       IN  /\ InGrid(m, Floor(t.x), Floor(t.y))
           /\ InGrid(m, Floor(x1), Floor(t.y))
           /\ x1 = IF (<<Floor(t.x), Floor(t.y)>> \in m.walls) THEN state.player.x ELSE t.x
           /\ y1 = IF (<<Floor(x1), Floor(t.y)>> \in m.walls) THEN state.player.y ELSE t.y

\* C37: the player and every live enemy stand on in-bounds cells of value 0 in
\* every state; in an update nobody moves a whole cell, so every cell looked up
\* is in the grid; a player whose target cell is a wall keeps its x, and keeps
\* its y when the cell under the new row is a wall
C37_OnOpenCells ==
    [][/\ Placed(state)
       /\ Placed(state')
       /\ \A i \in 1..Len(state.enemies) :
             (i <= Len(state'.enemies) /\ state'.enemies[i].id = state.enemies[i].id
                 /\ state'.worldMap = state.worldMap) =>
                /\ Abs(state'.enemies[i].x - state.enemies[i].x) < PosScale
                /\ Abs(state'.enemies[i].y - state.enemies[i].y) < PosScale
       /\ AIUpdated => PlayerStepped]_vars

\* the player walked at the corner of the pillar: x was blocked and y moved on
\* into the row of the pillar
C37_Witness ==
    /\ engine.frame > 1
    /\ state.player.x = Centre(worldSize) + 3 * PosScale - PosScale \div 20
    /\ state.player.y >= Centre(worldSize)
    /\ state.player.y < Centre(worldSize) + PosScale \div 4
    /\ state.player.angle = PI \div 4

\* C38: right after connectUnreachableAreas, before the emergency pass, every
\* open interior cell of the grid is reached by the flood fill from the spawn
\* cell, whatever grid with a walled border the repair was given
C38_RepairedGridConnected ==
    gen.stage = "repaired" =>
        (Interior(gen.map.size) \ gen.map.walls)
            \subseteq floodFill(gen.map, gen.map.size \div 2, gen.map.size \div 2)

\* a repaired grid whose spawn cell was walled in: the flood fill had marked the
\* spawn cell only, and the sixteen cells beyond the ring have their paths
C38_Witness ==
    /\ gen.stage = "repaired"
    /\ gen.map.size = RingSize
    /\ gen.reachable = {<<RingSize \div 2, RingSize \div 2>>}
    /\ Cardinality(Interior(RingSize) \ gen.map.walls) > 17

\* C39: while the audio setting enabled is false no audio source is started: a
\* step that starts a source is taken with the settings enabled
C39_DisabledIsSilent ==
    [][engine'.started > engine.started => engine.settings.enabled]_vars

\* C40: a broadcast invokes every listener that was registered when it began
\* exactly once, also when listeners call their own handle during it; a
\* handle that is called again removes no registration of another subscribe call
C40_BroadcastReachesAll ==
    /\ \A i \in 1..Len(listeners.before) :
          Cardinality({j \in 1..Len(listeners.invoked) :
                          listeners.invoked[j] = listeners.before[i].id}) = 1
    /\ listeners.last.again => listeners.last.removed \subseteq {listeners.last.id}

====
